---- MODULE Spec2Model ----
(***************************************************************************)
(* A model of the SNES emulator core: the address-space mapper (Memory),   *)
(* cartridge header detection, and the 65C816 interpreter (Cpu).           *)
(*                                                                         *)
(* Representation.  The byte arrays of Memory (wram, vram, oam, cgram,     *)
(* sram) are zero-initialised and far too large to enumerate, so each is a *)
(* function from the indices that hold a non-zero byte to that byte; an    *)
(* index outside the function's domain holds 0.  The cartridge image is a  *)
(* record [len, cells, filled]: len bytes long, byte i is cells[i] when i  *)
(* is in DOMAIN cells, and otherwise PatByte(i) (filled) or 0 (~filled).   *)
(* The register map is a HashMap in the source and is a function whose     *)
(* domain is the set of inserted keys.                                     *)
(***************************************************************************)
EXTENDS Integers, Sequences, FiniteSets, TLC

VARIABLES
    cart,      \* the byte sequence handed to Memory::new
    phase,     \* "raw": not constructed, "ready": constructed, "panic": aborted
    memory,    \* the Memory struct
    cpu,       \* the Cpu struct
    last,      \* the most recent operation, its arguments and its return value
    nwrites,   \* number of host bus writes performed so far
    ppu,       \* the Ppu struct
    watch      \* what the host has counted while driving the PPU

vars == <<cart, phase, memory, cpu, last, nwrites, ppu, watch>>

----------------------------------------------------------------------------
(* Bounds of the model *)

\* host bus writes per behaviour of SpecBus
MaxWrites == 2

\* the cycle count at which the host stops stepping, in SpecCpu and SpecStack
MaxCpuCycles == 60

MaxStackCycles == 1040

\* length of the run of PLA instructions in StackPrograms
PullRun == 300

\* the host stops stepping an arithmetic program at this many cycles
MaxAluCycles == 12

\* the host stops stepping a one-instruction program at this many cycles
MaxWidthCycles == 1

\* the host stops stepping a program of InitFrame at this many cycles: the
\* three instructions that set P take 9
MaxFrameCycles == 10

\* the host stops stepping a nested push/pull program at this many cycles
\* (its last pull starts at cycle 22 to 24)
MaxLifoCycles == 25

\* the host stops stepping the long push/pull program at this many cycles
\* (its 256th PLA starts at cycle 2300)
MaxLifoRunCycles == 2301

\* the host ticks the PPU this many times beyond one frame after noting the
\* scanline and dot
ExtraTicks == 2

\* the host that writes PPU registers stops ticking after this many scanlines:
\* one frame and the first two scanlines of the next
RegLines == 264

\* the host that resets the system does so within this many CPU cycles
MaxResetCycles == 30

\* the host stops stepping a program of InitFlow at this many cycles
MaxFlowCycles == 60

\* a host that asks for the frame after every tick runs the PPU for this many
\* scanlines: two frames and the first three scanlines of the third
DisplayLines == 527

----------------------------------------------------------------------------
(* Fixed-width integer helpers *)

U8(n) == n % 256

U16(n) == n % 65536

RECURSIVE BitAnd(_, _)
BitAnd(a, b) ==
    IF a = 0 \/ b = 0 THEN 0
    ELSE (a % 2) * (b % 2) + 2 * BitAnd(a \div 2, b \div 2)

RECURSIVE BitOr(_, _)
BitOr(a, b) ==
    IF a = 0 THEN b
    ELSE IF b = 0 THEN a
    ELSE (IF a % 2 = 1 \/ b % 2 = 1 THEN 1 ELSE 0) + 2 * BitOr(a \div 2, b \div 2)

RECURSIVE BitXor(_, _)
BitXor(a, b) ==
    IF a = 0 THEN b
    ELSE IF b = 0 THEN a
    ELSE ((a + b) % 2) + 2 * BitXor(a \div 2, b \div 2)

Shl(a, n) == a * (2 ^ n)

Shr(a, n) == a \div (2 ^ n)

----------------------------------------------------------------------------
(* Zero-initialised byte arrays *)

ArrGet(arr, i) == IF i \in DOMAIN arr THEN arr[i] ELSE 0

ArrSet(arr, i, v) ==
    IF v = 0
    THEN [j \in DOMAIN arr \ {i} |-> arr[j]]
    ELSE [j \in DOMAIN arr \cup {i} |-> IF j = i THEN v ELSE arr[j]]

EmptyArr == [j \in {} |-> 0]

\* HashMap<u16, u8>::get(..).copied().unwrap_or(0) and ::insert
RegGet(regs, k) == IF k \in DOMAIN regs THEN regs[k] ELSE 0

RegInsert(regs, k, v) == [j \in DOMAIN regs \cup {k} |-> IF j = k THEN v ELSE regs[j]]

----------------------------------------------------------------------------
(* The cartridge image: Vec<u8> *)

PatByte(i) == 1 + (((i \div 256) + i) % 255)

\* rom[i], defined for i < rom.len
RomByte(rom, i) ==
    IF i \in DOMAIN rom.cells THEN rom.cells[i]
    ELSE IF rom.filled THEN PatByte(i) ELSE 0

\* rom.get(i).copied().unwrap_or(0)
RomGet(rom, i) == IF i < rom.len THEN RomByte(rom, i) ELSE 0

\* rom[i] aborts the program when i is not below rom.len()
IndexPanics(rom, i) == ~(i < rom.len)

----------------------------------------------------------------------------
(* Memory::new and header detection *)

lorom_header == \h7FC0

hirom_header == \hFFC0

Word(rom, at) == BitOr(RomByte(rom, at), Shl(RomByte(rom, at + 1), 8))

detect_rom_type(rom) ==
    IF rom.len < \h8000 THEN "LoRom"
    ELSE IF /\ rom.len > hirom_header + \h20
            /\ U16(Word(rom, hirom_header + \h1C) + Word(rom, hirom_header + \h1E)) = \hFFFF
         THEN "HiRom"
    ELSE IF /\ rom.len > lorom_header + \h20
            /\ U16(Word(rom, lorom_header + \h1C) + Word(rom, lorom_header + \h1E)) = \hFFFF
         THEN "LoRom"
    ELSE "LoRom"

detect_sram_size_panics(rom) ==
    IF rom.len < \h7FD8 THEN FALSE ELSE IndexPanics(rom, \h7FD8)

detect_sram_size(rom) ==
    IF rom.len < \h7FD8 THEN 0
    ELSE LET sram_byte == RomByte(rom, \h7FD8)
         IN  CASE sram_byte = 0 -> 0
               [] sram_byte = 1 -> \h800
               [] sram_byte = 2 -> \h2000
               [] sram_byte = 3 -> \h8000
               [] sram_byte = 4 -> \h20000
               [] OTHER -> \h8000

\* "Unknown" as bytes
UnknownTitle == << 85, 110, 107, 110, 111, 119, 110 >>

\* the title as a byte string: the 21 header bytes as they are (lossy UTF-8
\* decoding and trimming of blanks are not modelled)
get_rom_title(m) ==
    IF m.rom.len < \h7FC0 + 21 THEN UnknownTitle
    ELSE [i \in 1..21 |-> RomByte(m.rom, \h7FC0 + i - 1)]

NewMemory(rom) ==
    [ wram |-> EmptyArr,
      rom |-> rom,
      vram |-> EmptyArr,
      oam |-> EmptyArr,
      cgram |-> EmptyArr,
      sram |-> EmptyArr,
      registers |-> EmptyArr,
      rom_type |-> detect_rom_type(rom),
      sram_size |-> detect_sram_size(rom) ]

\* the sizes of the fixed arrays and of the sram vector
VramLen == \h10000

OamLen == \h220

CgramLen == \h200

SramLen(m) == m.sram_size

----------------------------------------------------------------------------
(* Memory::read *)

read_ppu_registers(m, addr) ==
    IF addr \in \h2134..\h2136 THEN RegGet(m.registers, addr)
    ELSE IF addr \in \h2137..\h213F THEN 0
    ELSE RegGet(m.registers, addr)

read_apu_registers(m, addr) == RegGet(m.registers, addr)

read_dma_registers(m, addr) == RegGet(m.registers, addr)

Bank(addr) == U8(Shr(addr, 16))

\* ((bank as usize) << 15) | ((offset - 0x8000) as usize)
LoRomAddr(bank, offset) == BitOr(Shl(bank, 15), offset - \h8000)

\* faulty variant: the mirror bank's high bit is not removed
LoRomAddrMirrorUnshifted(bank, offset) == BitOr(Shl(bank, 15), offset - \h8000)

\* (((bank - 0x80) as usize) << 15) | ((offset - 0x8000) as usize)
LoRomAddrMirror(bank, offset) == BitOr(Shl(bank - \h80, 15), offset - \h8000)

\* (((bank - 0xC0) as usize) << 16) | (offset as usize)
HiRomAddr(bank, offset) == BitOr(Shl(bank - \hC0, 16), offset)

\* faulty variant: the sum kept in 16 bits, which aliases bank 0x7F to 0x7E
WramHighIndexWrapped(offset) == U16(\h10000 + offset)

\* (0x10000 + offset) as usize, the index of bank 0x7F's byte
WramHighIndex(offset) == \h10000 + offset

Offset(addr) == addr % \h10000

Read(m, addr) ==
    LET bank == Bank(addr)
        offset == Offset(addr)
    IN
    IF bank \in \h00..\h3F THEN
        IF offset \in \h0000..\h1FFF THEN ArrGet(m.wram, offset)
        ELSE IF offset \in \h2100..\h21FF THEN read_ppu_registers(m, offset)
        ELSE IF offset \in \h4000..\h41FF THEN read_apu_registers(m, offset)
        ELSE IF offset \in \h4200..\h44FF THEN read_dma_registers(m, offset)
        ELSE IF offset \in \h4016..\h4017 THEN RegGet(m.registers, offset)
        ELSE IF offset \in \h6000..\h7FFF THEN
            IF m.sram_size > 0
            THEN LET sram_addr == offset - \h6000
                 IN  IF sram_addr < SramLen(m) THEN ArrGet(m.sram, sram_addr) ELSE 0
            ELSE 0
        ELSE IF offset \in \h8000..\hFFFF THEN
            RomGet(m.rom, LoRomAddr(bank, offset))
        ELSE 0
    ELSE IF bank \in \h40..\h6F THEN
        IF offset >= \h8000
        THEN RomGet(m.rom, LoRomAddr(bank, offset))
        ELSE 0
    ELSE IF bank = \h7E THEN ArrGet(m.wram, offset)
    ELSE IF bank = \h7F THEN ArrGet(m.wram, WramHighIndex(offset))
    ELSE IF bank \in \h80..\hBF THEN
        IF offset \in \h0000..\h1FFF THEN ArrGet(m.wram, offset)
        ELSE IF offset \in \h2100..\h21FF THEN read_ppu_registers(m, offset)
        ELSE IF offset \in \h4000..\h41FF THEN read_apu_registers(m, offset)
        ELSE IF offset \in \h4200..\h44FF THEN read_dma_registers(m, offset)
        ELSE IF offset \in \h4016..\h4017 THEN RegGet(m.registers, offset)
        ELSE IF offset \in \h8000..\hFFFF THEN
            RomGet(m.rom, LoRomAddrMirror(bank, offset))
        ELSE 0
    ELSE IF bank \in \hC0..\hFF THEN
        IF m.rom_type = "HiRom"
        THEN RomGet(m.rom, HiRomAddr(bank, offset))
        ELSE 0
    ELSE 0

----------------------------------------------------------------------------
(* Memory::write *)

PpuAddr(m, lo, hi) == BitOr(Shl(RegGet(m.registers, hi), 8), RegGet(m.registers, lo))

write_ppu_registers(m, addr, value) ==
    CASE addr = \h2116 -> [m EXCEPT !.registers = RegInsert(@, \h2116, value)]
      [] addr = \h2117 -> [m EXCEPT !.registers = RegInsert(@, \h2117, value)]
      [] addr = \h2118 ->
            LET vram_addr == PpuAddr(m, \h2116, \h2117)
            IN  IF vram_addr < VramLen
                THEN [m EXCEPT !.vram = ArrSet(@, vram_addr, value)]
                ELSE m
      [] addr = \h2119 ->
            LET vram_addr == PpuAddr(m, \h2116, \h2117)
            IN  IF vram_addr + 1 < VramLen
                THEN [m EXCEPT !.vram = ArrSet(@, vram_addr + 1, value)]
                ELSE m
      [] addr = \h2102 -> [m EXCEPT !.registers = RegInsert(@, addr, value)]
      [] addr = \h2103 -> [m EXCEPT !.registers = RegInsert(@, addr, value)]
      [] addr = \h2104 ->
            LET oam_addr == PpuAddr(m, \h2102, \h2103)
            IN  IF oam_addr < OamLen
                THEN [m EXCEPT !.oam = ArrSet(@, oam_addr, value)]
                ELSE m
      [] addr = \h2121 -> [m EXCEPT !.registers = RegInsert(@, addr, value)]
      [] addr = \h2122 ->
            LET cgram_addr == RegGet(m.registers, \h2121)
            IN  IF cgram_addr < CgramLen
                THEN [m EXCEPT !.cgram = ArrSet(@, cgram_addr, value)]
                ELSE m
      [] OTHER -> [m EXCEPT !.registers = RegInsert(@, addr, value)]

\* faulty variant: the stored byte loses its top bit
write_apu_registers_masked(m, addr, value) ==
    [m EXCEPT !.registers = RegInsert(@, addr, BitAnd(value, \h7F))]

write_apu_registers(m, addr, value) == [m EXCEPT !.registers = RegInsert(@, addr, value)]

write_dma_registers(m, addr, value) == [m EXCEPT !.registers = RegInsert(@, addr, value)]

\* the arm of banks 0x00..=0x3F
WriteSystemLow(m, offset, value) ==
    IF offset \in \h0000..\h1FFF THEN [m EXCEPT !.wram = ArrSet(@, offset, value)]
    ELSE IF offset \in \h2100..\h21FF THEN write_ppu_registers(m, offset, value)
    ELSE IF offset \in \h4000..\h41FF THEN write_apu_registers(m, offset, value)
    ELSE IF offset \in \h4200..\h44FF THEN write_dma_registers(m, offset, value)
    ELSE IF offset \in \h4016..\h4017 THEN [m EXCEPT !.registers = RegInsert(@, offset, value)]
    ELSE IF offset \in \h6000..\h7FFF THEN
        IF m.sram_size > 0
        THEN LET sram_addr == offset - \h6000
             IN  IF sram_addr < SramLen(m)
                 THEN [m EXCEPT !.sram = ArrSet(@, sram_addr, value)]
                 ELSE m
        ELSE m
    ELSE IF offset \in \h8000..\hFFFF THEN m
    ELSE m

\* the arm of banks 0x80..=0xBF
WriteSystemHigh(m, offset, value) ==
    IF offset \in \h0000..\h1FFF THEN [m EXCEPT !.wram = ArrSet(@, offset, value)]
    ELSE IF offset \in \h2100..\h21FF THEN write_ppu_registers(m, offset, value)
    ELSE IF offset \in \h4000..\h41FF THEN write_apu_registers(m, offset, value)
    ELSE IF offset \in \h4200..\h44FF THEN write_dma_registers(m, offset, value)
    ELSE IF offset \in \h4016..\h4017 THEN [m EXCEPT !.registers = RegInsert(@, offset, value)]
    ELSE IF offset \in \h8000..\hFFFF THEN m
    ELSE m

\* faulty variant: an unmapped or ROM bank treated as a WRAM bank
WriteDiscardToWram(m, addr, value) == [m EXCEPT !.wram = ArrSet(@, Offset(addr), value)]

\* every arm of Memory::write that discards the byte
WriteDiscard(m, addr, value) == m

Write(m, addr, value) ==
    LET bank == Bank(addr)
        offset == Offset(addr)
    IN
    IF bank \in \h00..\h3F THEN WriteSystemLow(m, offset, value)
    ELSE IF bank = \h7E THEN [m EXCEPT !.wram = ArrSet(@, offset, value)]
    ELSE IF bank = \h7F THEN [m EXCEPT !.wram = ArrSet(@, WramHighIndex(offset), value)]
    ELSE IF bank \in \h80..\hBF THEN WriteSystemHigh(m, offset, value)
    ELSE WriteDiscard(m, addr, value)

----------------------------------------------------------------------------
(* Cpu::new *)

CpuNew ==
    [ a |-> 0, x |-> 0, y |-> 0,
      sp |-> \h01FF,
      pc |-> \h008000,
      dp |-> 0, db |-> 0, pb |-> 0,
      p |-> \h34,
      m_flag |-> TRUE, x_flag |-> TRUE, e_flag |-> TRUE,
      cycles |-> 0 ]

----------------------------------------------------------------------------
(* The decode table: opcodes.rs *)

FLAG_CARRY == \h01

FLAG_ZERO == \h02

FLAG_IRQ == \h04

FLAG_DECIMAL == \h08

FLAG_OVERFLOW == \h40

FLAG_NEGATIVE == \h80

\* Operation and AddressingMode are enums and are strings here; the payload
\* of SetFlag, ClearFlag and Branch is carried in flag and condition
\* Some(&OpcodeInfo)
OpcodeInfo(operation, mode, cycles, flag, condition) ==
    [ some |-> TRUE, operation |-> operation, mode |-> mode, cycles |-> cycles,
      flag |-> flag, condition |-> condition ]

\* Option::None
None == [ some |-> FALSE ]

\* the HashMap built by create_opcode_table, as the lookup of one key
create_opcode_table(opcode) ==
    CASE opcode = \h18 -> OpcodeInfo("ClearFlag", "Implied", 2, FLAG_CARRY, FALSE)
      [] opcode = \h38 -> OpcodeInfo("SetFlag", "Implied", 2, FLAG_CARRY, FALSE)
      [] opcode = \h58 -> OpcodeInfo("ClearFlag", "Implied", 2, FLAG_IRQ, FALSE)
      [] opcode = \h78 -> OpcodeInfo("SetFlag", "Implied", 2, FLAG_IRQ, FALSE)
      [] opcode = \hB8 -> OpcodeInfo("ClearFlag", "Implied", 2, FLAG_OVERFLOW, FALSE)
      [] opcode = \hD8 -> OpcodeInfo("ClearFlag", "Implied", 2, FLAG_DECIMAL, FALSE)
      [] opcode = \hF8 -> OpcodeInfo("SetFlag", "Implied", 2, FLAG_DECIMAL, FALSE)
      [] opcode = \hAA -> OpcodeInfo("TransferAX", "Implied", 2, 0, FALSE)
      [] opcode = \hA8 -> OpcodeInfo("TransferAY", "Implied", 2, 0, FALSE)
      [] opcode = \h8A -> OpcodeInfo("TransferXA", "Implied", 2, 0, FALSE)
      [] opcode = \h98 -> OpcodeInfo("TransferYA", "Implied", 2, 0, FALSE)
      [] opcode = \h9B -> OpcodeInfo("TransferXY", "Implied", 2, 0, FALSE)
      [] opcode = \hBB -> OpcodeInfo("TransferYX", "Implied", 2, 0, FALSE)
      [] opcode = \hBA -> OpcodeInfo("TransferSX", "Implied", 2, 0, FALSE)
      [] opcode = \h9A -> OpcodeInfo("TransferXS", "Implied", 2, 0, FALSE)
      [] opcode = \h3B -> OpcodeInfo("TransferSC", "Implied", 2, 0, FALSE)
      [] opcode = \h1B -> OpcodeInfo("TransferCS", "Implied", 2, 0, FALSE)
      [] opcode = \hA9 -> OpcodeInfo("LoadA", "Immediate", 2, 0, FALSE)
      [] opcode = \hA5 -> OpcodeInfo("LoadA", "DirectPage", 3, 0, FALSE)
      [] opcode = \hB5 -> OpcodeInfo("LoadA", "DirectPageIndexedX", 4, 0, FALSE)
      [] opcode = \hAD -> OpcodeInfo("LoadA", "Absolute", 4, 0, FALSE)
      [] opcode = \hBD -> OpcodeInfo("LoadA", "AbsoluteIndexedX", 4, 0, FALSE)
      [] opcode = \hB9 -> OpcodeInfo("LoadA", "AbsoluteIndexedY", 4, 0, FALSE)
      [] opcode = \hB1 -> OpcodeInfo("LoadA", "IndirectIndexed", 5, 0, FALSE)
      [] opcode = \hA1 -> OpcodeInfo("LoadA", "IndexedIndirect", 6, 0, FALSE)
      [] opcode = \hA2 -> OpcodeInfo("LoadX", "Immediate", 2, 0, FALSE)
      [] opcode = \hA6 -> OpcodeInfo("LoadX", "DirectPage", 3, 0, FALSE)
      [] opcode = \hB6 -> OpcodeInfo("LoadX", "DirectPageIndexedY", 4, 0, FALSE)
      [] opcode = \hAE -> OpcodeInfo("LoadX", "Absolute", 4, 0, FALSE)
      [] opcode = \hBE -> OpcodeInfo("LoadX", "AbsoluteIndexedY", 4, 0, FALSE)
      [] opcode = \hA0 -> OpcodeInfo("LoadY", "Immediate", 2, 0, FALSE)
      [] opcode = \hA4 -> OpcodeInfo("LoadY", "DirectPage", 3, 0, FALSE)
      [] opcode = \hB4 -> OpcodeInfo("LoadY", "DirectPageIndexedX", 4, 0, FALSE)
      [] opcode = \hAC -> OpcodeInfo("LoadY", "Absolute", 4, 0, FALSE)
      [] opcode = \hBC -> OpcodeInfo("LoadY", "AbsoluteIndexedX", 4, 0, FALSE)
      [] opcode = \h85 -> OpcodeInfo("StoreA", "DirectPage", 3, 0, FALSE)
      [] opcode = \h95 -> OpcodeInfo("StoreA", "DirectPageIndexedX", 4, 0, FALSE)
      [] opcode = \h8D -> OpcodeInfo("StoreA", "Absolute", 4, 0, FALSE)
      [] opcode = \h8F -> OpcodeInfo("StoreA", "AbsoluteLong", 5, 0, FALSE)
      [] opcode = \h9D -> OpcodeInfo("StoreA", "AbsoluteIndexedX", 5, 0, FALSE)
      [] opcode = \h9F -> OpcodeInfo("StoreA", "AbsoluteLongIndexedX", 5, 0, FALSE)
      [] opcode = \h99 -> OpcodeInfo("StoreA", "AbsoluteIndexedY", 5, 0, FALSE)
      [] opcode = \h91 -> OpcodeInfo("StoreA", "IndirectIndexed", 6, 0, FALSE)
      [] opcode = \h81 -> OpcodeInfo("StoreA", "IndexedIndirect", 6, 0, FALSE)
      [] opcode = \h86 -> OpcodeInfo("StoreX", "DirectPage", 3, 0, FALSE)
      [] opcode = \h96 -> OpcodeInfo("StoreX", "DirectPageIndexedY", 4, 0, FALSE)
      [] opcode = \h8E -> OpcodeInfo("StoreX", "Absolute", 4, 0, FALSE)
      [] opcode = \h84 -> OpcodeInfo("StoreY", "DirectPage", 3, 0, FALSE)
      [] opcode = \h94 -> OpcodeInfo("StoreY", "DirectPageIndexedX", 4, 0, FALSE)
      [] opcode = \h8C -> OpcodeInfo("StoreY", "Absolute", 4, 0, FALSE)
      [] opcode = \h64 -> OpcodeInfo("StoreZero", "DirectPage", 3, 0, FALSE)
      [] opcode = \h74 -> OpcodeInfo("StoreZero", "DirectPageIndexedX", 4, 0, FALSE)
      [] opcode = \h9C -> OpcodeInfo("StoreZero", "Absolute", 4, 0, FALSE)
      [] opcode = \h9E -> OpcodeInfo("StoreZero", "AbsoluteIndexedX", 5, 0, FALSE)
      [] opcode = \hFB -> OpcodeInfo("Xce", "Implied", 2, 0, FALSE)
      [] opcode = \hC2 -> OpcodeInfo("Rep", "Immediate", 3, 0, FALSE)
      [] opcode = \hE2 -> OpcodeInfo("Sep", "Immediate", 3, 0, FALSE)
      [] opcode = \h5B -> OpcodeInfo("Tcd", "Implied", 2, 0, FALSE)
      [] opcode = \h69 -> OpcodeInfo("Add", "Immediate", 2, 0, FALSE)
      [] opcode = \h65 -> OpcodeInfo("Add", "DirectPage", 3, 0, FALSE)
      [] opcode = \h75 -> OpcodeInfo("Add", "DirectPageIndexedX", 4, 0, FALSE)
      [] opcode = \h6D -> OpcodeInfo("Add", "Absolute", 4, 0, FALSE)
      [] opcode = \h7D -> OpcodeInfo("Add", "AbsoluteIndexedX", 4, 0, FALSE)
      [] opcode = \h79 -> OpcodeInfo("Add", "AbsoluteIndexedY", 4, 0, FALSE)
      [] opcode = \h71 -> OpcodeInfo("Add", "IndirectIndexed", 5, 0, FALSE)
      [] opcode = \h61 -> OpcodeInfo("Add", "IndexedIndirect", 6, 0, FALSE)
      [] opcode = \hE9 -> OpcodeInfo("Sub", "Immediate", 2, 0, FALSE)
      [] opcode = \hE5 -> OpcodeInfo("Sub", "DirectPage", 3, 0, FALSE)
      [] opcode = \hF5 -> OpcodeInfo("Sub", "DirectPageIndexedX", 4, 0, FALSE)
      [] opcode = \hED -> OpcodeInfo("Sub", "Absolute", 4, 0, FALSE)
      [] opcode = \hFD -> OpcodeInfo("Sub", "AbsoluteIndexedX", 4, 0, FALSE)
      [] opcode = \hF9 -> OpcodeInfo("Sub", "AbsoluteIndexedY", 4, 0, FALSE)
      [] opcode = \hF1 -> OpcodeInfo("Sub", "IndirectIndexed", 5, 0, FALSE)
      [] opcode = \hE1 -> OpcodeInfo("Sub", "IndexedIndirect", 6, 0, FALSE)
      [] opcode = \h1A -> OpcodeInfo("Inc", "Implied", 2, 0, FALSE)
      [] opcode = \hE6 -> OpcodeInfo("Inc", "DirectPage", 5, 0, FALSE)
      [] opcode = \hEE -> OpcodeInfo("Inc", "Absolute", 6, 0, FALSE)
      [] opcode = \h3A -> OpcodeInfo("Dec", "Implied", 2, 0, FALSE)
      [] opcode = \hC6 -> OpcodeInfo("Dec", "DirectPage", 5, 0, FALSE)
      [] opcode = \hCE -> OpcodeInfo("Dec", "Absolute", 6, 0, FALSE)
      [] opcode = \h29 -> OpcodeInfo("And", "Immediate", 2, 0, FALSE)
      [] opcode = \h25 -> OpcodeInfo("And", "DirectPage", 3, 0, FALSE)
      [] opcode = \h35 -> OpcodeInfo("And", "DirectPageIndexedX", 4, 0, FALSE)
      [] opcode = \h2D -> OpcodeInfo("And", "Absolute", 4, 0, FALSE)
      [] opcode = \h3D -> OpcodeInfo("And", "AbsoluteIndexedX", 4, 0, FALSE)
      [] opcode = \h39 -> OpcodeInfo("And", "AbsoluteIndexedY", 4, 0, FALSE)
      [] opcode = \h31 -> OpcodeInfo("And", "IndirectIndexed", 5, 0, FALSE)
      [] opcode = \h21 -> OpcodeInfo("And", "IndexedIndirect", 6, 0, FALSE)
      [] opcode = \h09 -> OpcodeInfo("Or", "Immediate", 2, 0, FALSE)
      [] opcode = \h05 -> OpcodeInfo("Or", "DirectPage", 3, 0, FALSE)
      [] opcode = \h15 -> OpcodeInfo("Or", "DirectPageIndexedX", 4, 0, FALSE)
      [] opcode = \h0D -> OpcodeInfo("Or", "Absolute", 4, 0, FALSE)
      [] opcode = \h1D -> OpcodeInfo("Or", "AbsoluteIndexedX", 4, 0, FALSE)
      [] opcode = \h19 -> OpcodeInfo("Or", "AbsoluteIndexedY", 4, 0, FALSE)
      [] opcode = \h11 -> OpcodeInfo("Or", "IndirectIndexed", 5, 0, FALSE)
      [] opcode = \h01 -> OpcodeInfo("Or", "IndexedIndirect", 6, 0, FALSE)
      [] opcode = \h49 -> OpcodeInfo("Xor", "Immediate", 2, 0, FALSE)
      [] opcode = \h45 -> OpcodeInfo("Xor", "DirectPage", 3, 0, FALSE)
      [] opcode = \h55 -> OpcodeInfo("Xor", "DirectPageIndexedX", 4, 0, FALSE)
      [] opcode = \h4D -> OpcodeInfo("Xor", "Absolute", 4, 0, FALSE)
      [] opcode = \h5D -> OpcodeInfo("Xor", "AbsoluteIndexedX", 4, 0, FALSE)
      [] opcode = \h59 -> OpcodeInfo("Xor", "AbsoluteIndexedY", 4, 0, FALSE)
      [] opcode = \h51 -> OpcodeInfo("Xor", "IndirectIndexed", 5, 0, FALSE)
      [] opcode = \h41 -> OpcodeInfo("Xor", "IndexedIndirect", 6, 0, FALSE)
      [] opcode = \hC9 -> OpcodeInfo("Compare", "Immediate", 2, 0, FALSE)
      [] opcode = \hC5 -> OpcodeInfo("Compare", "DirectPage", 3, 0, FALSE)
      [] opcode = \hD5 -> OpcodeInfo("Compare", "DirectPageIndexedX", 4, 0, FALSE)
      [] opcode = \hCD -> OpcodeInfo("Compare", "Absolute", 4, 0, FALSE)
      [] opcode = \hDD -> OpcodeInfo("Compare", "AbsoluteIndexedX", 4, 0, FALSE)
      [] opcode = \hD9 -> OpcodeInfo("Compare", "AbsoluteIndexedY", 4, 0, FALSE)
      [] opcode = \hD1 -> OpcodeInfo("Compare", "IndirectIndexed", 5, 0, FALSE)
      [] opcode = \hC1 -> OpcodeInfo("Compare", "IndexedIndirect", 6, 0, FALSE)
      [] opcode = \hE0 -> OpcodeInfo("CompareX", "Immediate", 2, 0, FALSE)
      [] opcode = \hE4 -> OpcodeInfo("CompareX", "DirectPage", 3, 0, FALSE)
      [] opcode = \hEC -> OpcodeInfo("CompareX", "Absolute", 4, 0, FALSE)
      [] opcode = \hC0 -> OpcodeInfo("CompareY", "Immediate", 2, 0, FALSE)
      [] opcode = \hC4 -> OpcodeInfo("CompareY", "DirectPage", 3, 0, FALSE)
      [] opcode = \hCC -> OpcodeInfo("CompareY", "Absolute", 4, 0, FALSE)
      [] opcode = \hCA -> OpcodeInfo("DecX", "Implied", 2, 0, FALSE)
      [] opcode = \h6B -> OpcodeInfo("Rtl", "Implied", 6, 0, FALSE)
      [] opcode = \h48 -> OpcodeInfo("PushA", "Implied", 3, 0, FALSE)
      [] opcode = \h68 -> OpcodeInfo("PullA", "Implied", 4, 0, FALSE)
      [] opcode = \h08 -> OpcodeInfo("PushP", "Implied", 3, 0, FALSE)
      [] opcode = \h28 -> OpcodeInfo("PullP", "Implied", 4, 0, FALSE)
      [] opcode = \hDA -> OpcodeInfo("PushX", "Implied", 3, 0, FALSE)
      [] opcode = \hFA -> OpcodeInfo("PullX", "Implied", 4, 0, FALSE)
      [] opcode = \h5A -> OpcodeInfo("PushY", "Implied", 3, 0, FALSE)
      [] opcode = \h7A -> OpcodeInfo("PullY", "Implied", 4, 0, FALSE)
      [] opcode = \h0A -> OpcodeInfo("ShiftLeft", "Implied", 2, 0, FALSE)
      [] opcode = \h06 -> OpcodeInfo("ShiftLeft", "DirectPage", 5, 0, FALSE)
      [] opcode = \h0E -> OpcodeInfo("ShiftLeft", "Absolute", 6, 0, FALSE)
      [] opcode = \h4A -> OpcodeInfo("ShiftRight", "Implied", 2, 0, FALSE)
      [] opcode = \h46 -> OpcodeInfo("ShiftRight", "DirectPage", 5, 0, FALSE)
      [] opcode = \h4E -> OpcodeInfo("ShiftRight", "Absolute", 6, 0, FALSE)
      [] opcode = \h20 -> OpcodeInfo("JumpSubroutine", "Absolute", 6, 0, FALSE)
      [] opcode = \h60 -> OpcodeInfo("ReturnFromSubroutine", "Implied", 6, 0, FALSE)
      [] opcode = \h40 -> OpcodeInfo("ReturnFromInterrupt", "Implied", 6, 0, FALSE)
      [] opcode = \h00 -> OpcodeInfo("SoftwareInterrupt", "Implied", 7, 0, FALSE)
      [] opcode = \h4C -> OpcodeInfo("Jump", "Absolute", 3, 0, FALSE)
      [] opcode = \h6C -> OpcodeInfo("JumpIndirect", "Indirect", 5, 0, FALSE)
      [] opcode = \h10 -> OpcodeInfo("Branch", "Implied", 2, FLAG_NEGATIVE, FALSE)
      [] opcode = \h30 -> OpcodeInfo("Branch", "Implied", 2, FLAG_NEGATIVE, TRUE)
      [] opcode = \h50 -> OpcodeInfo("Branch", "Implied", 2, FLAG_OVERFLOW, FALSE)
      [] opcode = \h70 -> OpcodeInfo("Branch", "Implied", 2, FLAG_OVERFLOW, TRUE)
      [] opcode = \h90 -> OpcodeInfo("Branch", "Implied", 2, FLAG_CARRY, FALSE)
      [] opcode = \hB0 -> OpcodeInfo("Branch", "Implied", 2, FLAG_CARRY, TRUE)
      [] opcode = \hD0 -> OpcodeInfo("Branch", "Implied", 2, FLAG_ZERO, FALSE)
      [] opcode = \hF0 -> OpcodeInfo("Branch", "Implied", 2, FLAG_ZERO, TRUE)
      [] opcode = \hEA -> OpcodeInfo("Nop", "Implied", 2, 0, FALSE)
      [] OTHER -> None

\* OPCODE_MAP.get(&opcode)
get_opcode_info(opcode) == create_opcode_table(opcode)

----------------------------------------------------------------------------
(* The interpreter: cpu.rs.                                                *)
(*                                                                         *)
(* A step threads the pair (&mut self, &mut Memory) through the calls it   *)
(* makes.  That pair is the record s = [cpu, mem, wr]; wr lists the        *)
(* Memory::write calls of the step so far as <<addr, value>>.  A function  *)
(* that also returns a value yields [s, v].  pc is a u32 that the bounds   *)
(* keep far below 2^31.                                                    *)

Ret(s, v) == [ s |-> s, v |-> v ]

\* memory.write(addr, value)
MemWrite(s, addr, value) ==
    [s EXCEPT !.mem = Write(@, addr, value), !.wr = Append(@, <<addr, value>>)]

\* self.pc += n
AdvancePc(s, n) == [s EXCEPT !.cpu.pc = @ + n]

\* (high << 8) | low
MakeWord(low, high) == BitOr(Shl(high, 8), low)

\* `as i16` on a u16
ToI16(v) == IF v >= \h8000 THEN v - \h10000 ELSE v

\* (reg & 0xFF00) | value
SetLow(reg, value) == BitOr(BitAnd(reg, \hFF00), value)

(* Flag operations *)

set_flag(c, flag) == [c EXCEPT !.p = BitOr(@, flag)]

clear_flag(c, flag) == [c EXCEPT !.p = @ - BitAnd(@, flag)]

set_carry_flag(c, set) ==
    IF set THEN set_flag(c, FLAG_CARRY) ELSE clear_flag(c, FLAG_CARRY)

\* faulty variant: the operands are compared with each other, as a
\* subtraction would
set_overflow_flag_add_as_sub(c, a, b, result) ==
    IF BitAnd(BitAnd(BitXor(a, b), BitXor(a, result)), \h80) # 0
    THEN set_flag(c, FLAG_OVERFLOW) ELSE clear_flag(c, FLAG_OVERFLOW)

set_overflow_flag_add(c, a, b, result) ==
    IF BitAnd(BitAnd(BitXor(a, result), BitXor(b, result)), \h80) # 0
    THEN set_flag(c, FLAG_OVERFLOW) ELSE clear_flag(c, FLAG_OVERFLOW)

set_overflow_flag_add16(c, a, b, result) ==
    IF BitAnd(BitAnd(BitXor(a, result), BitXor(b, result)), \h8000) # 0
    THEN set_flag(c, FLAG_OVERFLOW) ELSE clear_flag(c, FLAG_OVERFLOW)

\* faulty variant: the result is compared with both operands, as an
\* addition would
set_overflow_flag_sub_as_add(c, a, b, result) ==
    IF BitAnd(BitAnd(BitXor(a, result), BitXor(b, result)), \h80) # 0
    THEN set_flag(c, FLAG_OVERFLOW) ELSE clear_flag(c, FLAG_OVERFLOW)

set_overflow_flag_sub(c, a, b, result) ==
    IF BitAnd(BitAnd(BitXor(a, b), BitXor(a, result)), \h80) # 0
    THEN set_flag(c, FLAG_OVERFLOW) ELSE clear_flag(c, FLAG_OVERFLOW)

set_overflow_flag_sub16(c, a, b, result) ==
    IF BitAnd(BitAnd(BitXor(a, b), BitXor(a, result)), \h8000) # 0
    THEN set_flag(c, FLAG_OVERFLOW) ELSE clear_flag(c, FLAG_OVERFLOW)

get_flag(c, flag) == BitAnd(c.p, flag) # 0

\* faulty variant: carry is cleared with Z and N
update_nz_flags_clearing_carry(c, value) ==
    LET c1 == clear_flag(c, BitOr(FLAG_CARRY, BitOr(FLAG_ZERO, FLAG_NEGATIVE)))
        c2 == IF value = 0 THEN set_flag(c1, FLAG_ZERO) ELSE c1
        test_bit == IF c.m_flag \/ c.x_flag THEN \h80 ELSE \h8000
    IN  IF BitAnd(value, test_bit) # 0 THEN set_flag(c2, FLAG_NEGATIVE) ELSE c2

update_nz_flags(c, value) ==
    LET c1 == clear_flag(c, BitOr(FLAG_ZERO, FLAG_NEGATIVE))
        c2 == IF value = 0 THEN set_flag(c1, FLAG_ZERO) ELSE c1
        test_bit == IF c.m_flag \/ c.x_flag THEN \h80 ELSE \h8000
    IN  IF BitAnd(value, test_bit) # 0 THEN set_flag(c2, FLAG_NEGATIVE) ELSE c2

update_nz_flags_a(c) ==
    update_nz_flags(c, IF c.m_flag THEN BitAnd(c.a, \hFF) ELSE c.a)

update_nz_flags_x(c) ==
    update_nz_flags(c, IF c.x_flag THEN BitAnd(c.x, \hFF) ELSE c.x)

update_nz_flags_y(c) ==
    update_nz_flags(c, IF c.x_flag THEN BitAnd(c.y, \hFF) ELSE c.y)

update_mode_flags(c) ==
    IF ~c.e_flag
    THEN [c EXCEPT !.m_flag = BitAnd(c.p, \h20) # 0, !.x_flag = BitAnd(c.p, \h10) # 0]
    ELSE c

(* The stack *)

\* faulty variant: the emulation-mode stack pointer leaves page 1
push_byte_unwrapped(s, value) ==
    [MemWrite(s, s.cpu.sp, value) EXCEPT !.cpu.sp = U16(@ + \hFFFF)]

push_byte(s, value) ==
    [MemWrite(s, s.cpu.sp, value) EXCEPT
        !.cpu.sp = IF s.cpu.e_flag
                   THEN IF BitAnd(@, \hFF) = \h00 THEN \h01FF ELSE @ - 1
                   ELSE U16(@ + \hFFFF)]

\* faulty variant: the byte is read before the stack pointer moves
pull_byte_read_first(s) ==
    LET sp == IF s.cpu.e_flag
              THEN IF BitAnd(s.cpu.sp, \hFF) = \hFF THEN \h0100 ELSE s.cpu.sp + 1
              ELSE U16(s.cpu.sp + 1)
    IN  Ret([s EXCEPT !.cpu.sp = sp], Read(s.mem, s.cpu.sp))

pull_byte(s) ==
    LET sp == IF s.cpu.e_flag
              THEN IF BitAnd(s.cpu.sp, \hFF) = \hFF THEN \h0100 ELSE s.cpu.sp + 1
              ELSE U16(s.cpu.sp + 1)
    IN  Ret([s EXCEPT !.cpu.sp = sp], Read(s.mem, sp))

(* Operand addressing *)

\* two memory.read calls combined little-endian
ReadWord(m, low_addr, high_addr) == MakeWord(Read(m, low_addr), Read(m, high_addr))

read_address(s, mode) ==
    IF mode = "Absolute"
    THEN Ret(AdvancePc(s, 2), ReadWord(s.mem, s.cpu.pc, s.cpu.pc + 1))
    ELSE Ret(s, 0)

\* The address computation that read_operand and write_operand repeat for
\* each memory mode: [s, v, next] with v the operand's address and next the
\* address of its high byte, a u16 sum when the address is a u16 (direct
\* page) and a u32 sum otherwise.  From is applied to s after pc += 1, the
\* registers, the byte at pc and the result of read_address.
OperandAddress(s, mode) ==
    LET Short(st, addr) == [ s |-> st, v |-> addr, next |-> U16(addr + 1) ]
        Long(st, addr) == [ s |-> st, v |-> addr, next |-> addr + 1 ]
        Pointer(m, dp_addr) == ReadWord(m, dp_addr, BitAnd(U16(dp_addr + 1), \hFFFF))
        From(s1, c, base, ra) ==
            CASE mode = "DirectPage" -> Short(s1, U16(c.dp + base))
              [] mode = "DirectPageIndexedX" ->
                    Short(s1, BitAnd(U16(c.dp + base + BitAnd(c.x, \hFF)), \hFFFF))
              [] mode = "DirectPageIndexedY" ->
                    Short(s1, BitAnd(U16(c.dp + base + BitAnd(c.y, \hFF)), \hFFFF))
              [] mode = "Absolute" -> Long(ra.s, ra.v)
              [] mode = "AbsoluteIndexedX" -> Long(ra.s, ra.v + BitAnd(c.x, \hFFFF))
              [] mode = "AbsoluteIndexedY" -> Long(ra.s, ra.v + BitAnd(c.y, \hFFFF))
              [] mode = "IndirectIndexed" ->
                    Long(s1, Pointer(s1.mem, BitAnd(U16(c.dp + base), \hFFFF))
                             + BitAnd(c.y, \hFFFF))
              [] mode = "IndexedIndirect" ->
                    Long(s1, Pointer(s1.mem,
                                     BitAnd(U16(c.dp + base + BitAnd(c.x, \hFF)), \hFFFF)))
    IN  From(AdvancePc(s, 1), s.cpu, Read(s.mem, s.cpu.pc), read_address(s, "Absolute"))

read_operand(s, mode, use_x_flag) ==
    LET is_8bit == IF use_x_flag THEN s.cpu.x_flag ELSE s.cpu.m_flag
        Value(oa) ==
            IF is_8bit
            THEN Ret(oa.s, Read(oa.s.mem, oa.v))
            ELSE Ret(oa.s, ReadWord(oa.s.mem, oa.v, oa.next))
    IN  IF mode = "Immediate" THEN
            IF is_8bit
            THEN Ret(AdvancePc(s, 1), Read(s.mem, s.cpu.pc))
            ELSE Ret(AdvancePc(s, 2), ReadWord(s.mem, s.cpu.pc, s.cpu.pc + 1))
        ELSE IF mode \in { "DirectPage", "DirectPageIndexedX", "DirectPageIndexedY",
                           "Absolute", "AbsoluteIndexedX", "AbsoluteIndexedY",
                           "IndirectIndexed", "IndexedIndirect" }
        THEN Value(OperandAddress(s, mode))
        ELSE Ret(s, 0)

\* if !is_8bit { memory.write(high address, (value >> 8) as u8) }
WriteHigh(s, addr, value, is_8bit) ==
    IF ~is_8bit THEN MemWrite(s, addr, U8(Shr(value, 8))) ELSE s

write_operand(s, mode, value, use_x_flag) ==
    LET is_8bit == IF use_x_flag THEN s.cpu.x_flag ELSE s.cpu.m_flag
        At(oa) == WriteHigh(MemWrite(oa.s, oa.v, U8(value)), oa.next, value, is_8bit)
    IN  IF mode \in { "DirectPage", "DirectPageIndexedX", "DirectPageIndexedY",
                      "Absolute", "AbsoluteIndexedX", "AbsoluteIndexedY",
                      "IndirectIndexed", "IndexedIndirect" }
        THEN At(OperandAddress(s, mode))
        ELSE s

get_effective_address(s, mode) ==
    LET At(oa) == Ret(oa.s, oa.v)
    IN  IF mode \in { "DirectPage", "DirectPageIndexedX", "DirectPageIndexedY",
                      "Absolute", "AbsoluteIndexedX", "AbsoluteIndexedY" }
        THEN At(OperandAddress(s, mode))
        ELSE Ret(s, 0)

adjust_cycles(c, base_cycles, mode) ==
    IF mode = "Immediate"
    THEN IF ~c.m_flag \/ ~c.x_flag THEN U8(base_cycles + 1) ELSE base_cycles
    ELSE base_cycles

(* Arithmetic *)

adc(c, operand) ==
    LET acc_value == IF c.m_flag THEN BitAnd(c.a, \hFF) ELSE c.a
        carry == IF get_flag(c, FLAG_CARRY) THEN 1 ELSE 0
        c3 == IF c.m_flag
              THEN LET result == U16(acc_value + operand + carry)
                       c1 == set_carry_flag(c, result > \hFF)
                       c2 == set_overflow_flag_add(c1, U8(acc_value), U8(operand), U8(result))
                   IN  [c2 EXCEPT !.a = BitOr(BitAnd(c.a, \hFF00), BitAnd(result, \hFF))]
              ELSE LET result == acc_value + operand + carry
                       c1 == set_carry_flag(c, result > \hFFFF)
                       c2 == set_overflow_flag_add16(c1, acc_value, operand, U16(result))
                   IN  [c2 EXCEPT !.a = U16(result)]
    IN  update_nz_flags_a(c3)

\* faulty variant: the borrow is taken when carry is set
sbc_borrow_inverted(c, operand) ==
    LET acc_value == IF c.m_flag THEN BitAnd(c.a, \hFF) ELSE c.a
        carry == IF get_flag(c, FLAG_CARRY) THEN 1 ELSE 0
        c3 == IF c.m_flag
              THEN LET result == ToI16(acc_value) - ToI16(operand) - carry
                       c1 == set_carry_flag(c, result >= 0)
                       c2 == set_overflow_flag_sub(c1, U8(acc_value), U8(operand), U8(result))
                   IN  [c2 EXCEPT !.a = BitOr(BitAnd(c.a, \hFF00), BitAnd(U16(result), \hFF))]
              ELSE LET result == acc_value - operand - carry
                       c1 == set_carry_flag(c, result >= 0)
                       c2 == set_overflow_flag_sub16(c1, acc_value, operand, U16(result))
                   IN  [c2 EXCEPT !.a = U16(result)]
    IN  update_nz_flags_a(c3)

sbc(c, operand) ==
    LET acc_value == IF c.m_flag THEN BitAnd(c.a, \hFF) ELSE c.a
        carry == IF get_flag(c, FLAG_CARRY) THEN 0 ELSE 1
        c3 == IF c.m_flag
              THEN LET result == ToI16(acc_value) - ToI16(operand) - carry
                       c1 == set_carry_flag(c, result >= 0)
                       c2 == set_overflow_flag_sub(c1, U8(acc_value), U8(operand), U8(result))
                   IN  [c2 EXCEPT !.a = BitOr(BitAnd(c.a, \hFF00), BitAnd(U16(result), \hFF))]
              ELSE LET result == acc_value - operand - carry
                       c1 == set_carry_flag(c, result >= 0)
                       c2 == set_overflow_flag_sub16(c1, acc_value, operand, U16(result))
                   IN  [c2 EXCEPT !.a = U16(result)]
    IN  update_nz_flags_a(c3)

compare(c, register_value, operand) ==
    LET result == ToI16(register_value) - ToI16(operand)
        c1 == set_carry_flag(c, register_value >= operand)
        c2 == IF register_value = operand
              THEN set_flag(c1, FLAG_ZERO) ELSE clear_flag(c1, FLAG_ZERO)
        test_bit == IF c.m_flag \/ c.x_flag THEN \h80 ELSE \h8000
    IN  IF BitAnd(U16(result), test_bit) # 0
        THEN set_flag(c2, FLAG_NEGATIVE) ELSE clear_flag(c2, FLAG_NEGATIVE)

(* Cpu::execute_operation *)

OnCpu(s, c) == [s EXCEPT !.cpu = c]

\* the assignment of r.v to a register followed by the register's flag
\* update, which ends the loads, the transfers, the pulls and the logic and
\* accumulator operations
SetA(r) == OnCpu(r.s, update_nz_flags_a([r.s.cpu EXCEPT !.a = r.v]))

SetX(r) == OnCpu(r.s, update_nz_flags_x([r.s.cpu EXCEPT !.x = r.v]))

SetY(r) == OnCpu(r.s, update_nz_flags_y([r.s.cpu EXCEPT !.y = r.v]))

\* if flag { reg & 0xFF } else { reg }
Narrow(reg, is_8bit) == IF is_8bit THEN BitAnd(reg, \hFF) ELSE reg

\* if flag { (old & 0xFF00) | value } else { value }
Widen(old, value, is_8bit) ==
    IF is_8bit THEN BitOr(BitAnd(old, \hFF00), value) ELSE value

StoreZero(s, mode) ==
    LET At(ea) == WriteHigh(MemWrite(ea.s, ea.v, 0), ea.v + 1, 0, s.cpu.m_flag)
    IN  At(get_effective_address(s, mode))

\* the new value computed by Inc, Dec, ShiftLeft and ShiftRight at a width
Modified(op, value, bits) ==
    CASE op = "Inc" -> (value + 1) % (2 ^ bits)
      [] op = "Dec" -> (value + (2 ^ bits) - 1) % (2 ^ bits)
      [] op = "ShiftLeft" -> Shl(value, 1) % (2 ^ bits)
      [] op = "ShiftRight" -> Shr(value, 1)

\* the carry update ShiftLeft and ShiftRight make; Inc and Dec make none
CarryAfter(op, c, value, bits) ==
    CASE op = "ShiftLeft" -> set_carry_flag(c, BitAnd(value, 2 ^ (bits - 1)) # 0)
      [] op = "ShiftRight" -> set_carry_flag(c, BitAnd(value, 1) # 0)
      [] OTHER -> c

\* the memory arm `_ =>` of Inc, Dec, ShiftLeft and ShiftRight
ModifyMemory(s, mode, op) ==
    LET Flags(st, result) == OnCpu(st, update_nz_flags(st.cpu, result))
        OfByte(st, addr, value) ==
            Flags(MemWrite(OnCpu(st, CarryAfter(op, st.cpu, value, 8)),
                           addr, Modified(op, value, 8)),
                  Modified(op, value, 8))
        OfWord(st, addr, value) ==
            Flags(MemWrite(MemWrite(OnCpu(st, CarryAfter(op, st.cpu, value, 16)),
                                    addr, U8(Modified(op, value, 16))),
                           addr + 1, U8(Shr(Modified(op, value, 16), 8))),
                  Modified(op, value, 16))
        At(ea) ==
            IF s.cpu.m_flag
            THEN OfByte(ea.s, ea.v, Read(ea.s.mem, ea.v))
            ELSE OfWord(ea.s, ea.v, ReadWord(ea.s.mem, ea.v, ea.v + 1))
    IN  At(get_effective_address(s, mode))

\* the arm AddressingMode::Implied of Inc and Dec
ModifyA(s, op) ==
    SetA(Ret(s, IF s.cpu.m_flag
                THEN SetLow(s.cpu.a, BitAnd(Modified(op, BitAnd(s.cpu.a, \hFF), 16), \hFF))
                ELSE Modified(op, s.cpu.a, 16)))

\* the arm AddressingMode::Implied of ShiftLeft and ShiftRight
ShiftA(s, op) ==
    LET c == s.cpu
        Flags(st, result) == OnCpu(st, update_nz_flags(st.cpu, result))
    IN  IF c.m_flag
        THEN Flags(OnCpu(s, [CarryAfter(op, c, BitAnd(c.a, \hFF), 8) EXCEPT
                                !.a = SetLow(c.a, Modified(op, BitAnd(c.a, \hFF), 8))]),
                   Modified(op, BitAnd(c.a, \hFF), 8))
        ELSE Flags(OnCpu(s, [CarryAfter(op, c, c.a, 16) EXCEPT
                                !.a = Modified(op, c.a, 16)]),
                   Modified(op, c.a, 16))

\* And, Or, Xor given the result r of read_operand
Logic(r, op) ==
    LET F(a, b) == CASE op = "And" -> BitAnd(a, b)
                     [] op = "Or" -> BitOr(a, b)
                     [] op = "Xor" -> BitXor(a, b)
        c == r.s.cpu
    IN  SetA(Ret(r.s, IF c.m_flag
                      THEN SetLow(c.a, F(BitAnd(c.a, \hFF), r.v))
                      ELSE F(c.a, r.v)))

\* PushA, PushX, PushY: is_8bit is the register's width flag
Push(s, value, is_8bit) ==
    push_byte(IF is_8bit THEN s ELSE push_byte(s, U8(Shr(value, 8))),
              BitAnd(value, \hFF))

\* two pull_byte calls, low byte then high byte: [s, v]
PullWord(s) ==
    LET High(low, high) == Ret(high.s, MakeWord(low.v, high.v))
        Low(low) == High(low, pull_byte(low.s))
    IN  Low(pull_byte(s))

\* what PullA, PullX, PullY pull for a register holding old: [s, v]
Pull(s, old, is_8bit) ==
    LET Low(r) == Ret(r.s, SetLow(old, r.v))
    IN  IF is_8bit THEN Low(pull_byte(s)) ELSE PullWord(s)

\* push_byte(high byte); push_byte(low byte)
PushWord(s, word) == push_byte(push_byte(s, U8(Shr(word, 8))), U8(word))

JumpSubroutine(s, mode) ==
    LET To(t) == [PushWord(t.s, t.s.cpu.pc - 1) EXCEPT !.cpu.pc = t.v]
    IN  To(read_address(s, mode))

ReturnFromSubroutine(s) ==
    LET To(r) == [r.s EXCEPT !.cpu.pc = r.v + 1]
    IN  To(PullWord(s))

ReturnFromInterrupt(s) ==
    LET To(p, r) == OnCpu(r.s, update_mode_flags([r.s.cpu EXCEPT !.p = p.v, !.pc = r.v]))
        With(p) == To(p, PullWord(p.s))
    IN  With(pull_byte(s))

\* faulty variant: the signature byte is not skipped, so the address pushed is
\* one short
SoftwareInterruptUnadvanced(s) ==
    LET Pushes(st) == push_byte(PushWord(st, st.cpu.pc), BitOr(st.cpu.p, \h10))
        Vector(st) == [st EXCEPT !.cpu.p = BitOr(@, FLAG_IRQ),
                                 !.cpu.pc = ReadWord(st.mem, \h00FFFE, \h00FFFF)]
    IN  Vector(Pushes(s))

SoftwareInterrupt(s) ==
    LET Pushes(st) == push_byte(PushWord(st, st.cpu.pc), BitOr(st.cpu.p, \h10))
        Vector(st) == [st EXCEPT !.cpu.p = BitOr(@, FLAG_IRQ),
                                 !.cpu.pc = ReadWord(st.mem, \h00FFFE, \h00FFFF)]
    IN  Vector(Pushes(AdvancePc(s, 1)))

Jump(s, mode) ==
    LET To(t) == [t.s EXCEPT !.cpu.pc = t.v]
    IN  To(read_address(s, mode))

JumpIndirect(s) ==
    LET Through(t) == [t.s EXCEPT !.cpu.pc = ReadWord(t.s.mem, t.v, t.v + 1)]
    IN  Through(read_address(s, "Absolute"))

\* faulty variant: the operand byte is added unsigned
BranchUnsigned(s, flag, condition) ==
    AdvancePc(s, 1 + (IF get_flag(s.cpu, flag) = condition
                      THEN Read(s.mem, s.cpu.pc) ELSE 0))

\* offset is the operand byte as an i8
Branch(s, flag, condition) ==
    LET Offset8(byte) == IF byte >= \h80 THEN byte - \h100 ELSE byte
    IN  AdvancePc(s, 1 + (IF get_flag(s.cpu, flag) = condition
                          THEN Offset8(Read(s.mem, s.cpu.pc)) ELSE 0))

\* the arm `_ =>`: Xce, Rep, Sep, Tcd, DecX and Rtl have no arm of their own
Unimplemented(s) == s

execute_operation(s, info) ==
    LET op == info.operation
        mode == info.mode
        c == s.cpu
        Load(r, old, is_8bit) == Ret(r.s, Widen(old, r.v, is_8bit))
        Transfer(old, value, is_8bit) ==
            Ret(s, IF is_8bit THEN Widen(old, BitAnd(value, \hFF), TRUE) ELSE value)
        Adc(r) == OnCpu(r.s, adc(r.s.cpu, r.v))
        Sbc(r) == OnCpu(r.s, sbc(r.s.cpu, r.v))
        Cmp(r, value) == OnCpu(r.s, compare(r.s.cpu, value, r.v))
        Status(r) == OnCpu(r.s, update_mode_flags([r.s.cpu EXCEPT !.p = r.v]))
    IN  CASE op = "LoadA" -> SetA(Load(read_operand(s, mode, FALSE), c.a, c.m_flag))
          [] op = "LoadX" -> SetX(Load(read_operand(s, mode, FALSE), c.x, c.x_flag))
          [] op = "LoadY" -> SetY(Load(read_operand(s, mode, FALSE), c.y, c.x_flag))
          [] op = "StoreA" -> write_operand(s, mode, Narrow(c.a, c.m_flag), FALSE)
          [] op = "StoreX" -> write_operand(s, mode, Narrow(c.x, c.x_flag), TRUE)
          [] op = "StoreY" -> write_operand(s, mode, Narrow(c.y, c.x_flag), TRUE)
          [] op = "StoreZero" -> StoreZero(s, mode)
          [] op = "Add" -> Adc(read_operand(s, mode, FALSE))
          [] op = "Sub" -> Sbc(read_operand(s, mode, FALSE))
          [] op \in { "Inc", "Dec" } ->
                IF mode = "Implied" THEN ModifyA(s, op) ELSE ModifyMemory(s, mode, op)
          [] op \in { "And", "Or", "Xor" } -> Logic(read_operand(s, mode, FALSE), op)
          [] op = "Compare" ->
                Cmp(read_operand(s, mode, FALSE), Narrow(c.a, c.m_flag))
          [] op = "CompareX" ->
                Cmp(read_operand(s, mode, TRUE), Narrow(c.x, c.x_flag))
          [] op = "CompareY" ->
                Cmp(read_operand(s, mode, TRUE), Narrow(c.y, c.x_flag))
          [] op \in { "ShiftLeft", "ShiftRight" } ->
                IF mode = "Implied" THEN ShiftA(s, op) ELSE ModifyMemory(s, mode, op)
          [] op = "TransferAX" -> SetX(Transfer(c.x, c.a, c.x_flag))
          [] op = "TransferAY" -> SetY(Transfer(c.y, c.a, c.x_flag))
          [] op = "TransferXA" -> SetA(Transfer(c.a, c.x, c.m_flag))
          [] op = "TransferYA" -> SetA(Transfer(c.a, c.y, c.m_flag))
          [] op = "TransferSX" -> SetX(Transfer(c.x, c.sp, c.x_flag))
          [] op = "TransferXS" ->
                IF c.e_flag
                THEN OnCpu(s, [c EXCEPT !.sp = BitOr(\h0100, BitAnd(c.x, \hFF))])
                ELSE IF c.x_flag
                THEN OnCpu(s, [c EXCEPT !.sp = BitOr(BitAnd(c.sp, \hFF00),
                                                     BitAnd(c.x, \hFF))])
                ELSE OnCpu(s, [c EXCEPT !.sp = c.x])
          [] op = "TransferXY" -> SetY(Transfer(c.y, c.x, c.x_flag))
          [] op = "TransferYX" -> SetX(Transfer(c.x, c.y, c.x_flag))
          [] op = "TransferSC" ->
                SetA(Ret(s, IF c.m_flag
                            THEN BitOr(BitAnd(c.sp, \hFF00), BitAnd(c.sp, \hFF))
                            ELSE c.sp))
          [] op = "TransferCS" ->
                IF c.e_flag
                THEN OnCpu(s, [c EXCEPT !.sp = BitOr(\h0100, BitAnd(c.sp, \hFF))])
                ELSE IF c.m_flag
                THEN OnCpu(s, [c EXCEPT !.sp = BitOr(BitAnd(c.sp, \hFF00),
                                                     BitAnd(c.a, \hFF))])
                ELSE OnCpu(s, [c EXCEPT !.sp = c.a])
          [] op = "PushA" -> Push(s, c.a, c.m_flag)
          [] op = "PullA" -> SetA(Pull(s, c.a, c.m_flag))
          [] op = "PushP" -> push_byte(s, c.p)
          [] op = "PullP" -> Status(pull_byte(s))
          [] op = "PushX" -> Push(s, c.x, c.x_flag)
          [] op = "PullX" -> SetX(Pull(s, c.x, c.x_flag))
          [] op = "PushY" -> Push(s, c.y, c.x_flag)
          [] op = "PullY" -> SetY(Pull(s, c.y, c.x_flag))
          [] op = "JumpSubroutine" -> JumpSubroutine(s, mode)
          [] op = "ReturnFromSubroutine" -> ReturnFromSubroutine(s)
          [] op = "ReturnFromInterrupt" -> ReturnFromInterrupt(s)
          [] op = "SoftwareInterrupt" -> SoftwareInterrupt(s)
          [] op = "SetFlag" -> OnCpu(s, set_flag(c, info.flag))
          [] op = "ClearFlag" -> OnCpu(s, clear_flag(c, info.flag))
          [] op = "Jump" -> Jump(s, mode)
          [] op = "JumpIndirect" -> JumpIndirect(s)
          [] op = "Branch" -> Branch(s, info.flag, info.condition)
          [] op = "Nop" -> s
          [] OTHER -> Unimplemented(s)

\* faulty variant: an opcode without a table entry is charged 3 cycles
UnknownOpcodeCostly(s, opcode) == Ret(s, 3)

\* the arm `None =>` of execute_instruction
UnknownOpcode(s, opcode) == Ret(s, 2)

execute_instruction(s, opcode) ==
    LET Executed(s1, info) == Ret(s1, adjust_cycles(s1.cpu, info.cycles, info.mode))
        Decoded(info) ==
            IF info.some
            THEN Executed(execute_operation(s, info), info)
            ELSE UnknownOpcode(s, opcode)
    IN  Decoded(get_opcode_info(opcode))

----------------------------------------------------------------------------
(* The picture unit: ppu.rs.  bg_enabled, bg_mode, bg_priority, bg_size,   *)
(* bg_hscroll and bg_vscroll are arrays of four, here sequences indexed    *)
(* from 1; framebuffer and line_buffer are zero-initialised arrays.        *)

PpuNew ==
    [ scanline |-> 0, cycle |-> 0, frame_complete |-> FALSE,
      vblank |-> FALSE, hblank |-> FALSE,
      video_mode |-> "Mode0", brightness |-> 0, forced_blank |-> TRUE,
      bg_enabled |-> << FALSE, FALSE, FALSE, FALSE >>,
      bg_mode |-> << 0, 0, 0, 0 >>,
      bg_priority |-> << 0, 0, 0, 0 >>,
      bg_size |-> << FALSE, FALSE, FALSE, FALSE >>,
      sprites_enabled |-> FALSE, sprite_size |-> 0,
      bg_hscroll |-> << 0, 0, 0, 0 >>,
      bg_vscroll |-> << 0, 0, 0, 0 >>,
      vram_addr |-> 0, vram_increment |-> 1, oam_addr |-> 0, cgram_addr |-> 0,
      framebuffer |-> EmptyArr, line_buffer |-> EmptyArr,
      nmi_enabled |-> FALSE, nmi_flag |-> FALSE ]

\* Ppu::reset: *self = Self::new()
PpuReset(p) == PpuNew

write_register(p, addr, value) ==
    LET VideoModes == << "Mode0", "Mode1", "Mode2", "Mode3",
                         "Mode4", "Mode5", "Mode6", "Mode7" >>
    IN
    CASE addr = \h2100 ->
            [p EXCEPT !.brightness = BitAnd(value, \h0F),
                      !.forced_blank = (BitAnd(value, \h80) # 0)]
      [] addr = \h2101 -> [p EXCEPT !.sprite_size = BitAnd(value, \h07)]
      [] addr = \h2105 ->
            [p EXCEPT !.video_mode = VideoModes[BitAnd(value, \h07) + 1],
                      !.bg_size = << BitAnd(value, \h10) # 0, BitAnd(value, \h20) # 0,
                                     BitAnd(value, \h40) # 0, BitAnd(value, \h80) # 0 >>]
      [] addr = \h212C ->
            [p EXCEPT !.bg_enabled = << BitAnd(value, \h01) # 0, BitAnd(value, \h02) # 0,
                                        BitAnd(value, \h04) # 0, BitAnd(value, \h08) # 0 >>,
                      !.sprites_enabled = (BitAnd(value, \h10) # 0)]
      [] addr = \h4200 -> [p EXCEPT !.nmi_enabled = (BitAnd(value, \h80) # 0)]
      [] OTHER -> p

read_register(p, addr) ==
    CASE addr = \h2137 -> 0
      [] addr = \h213E ->
            BitOr(IF p.vblank THEN \h80 ELSE 0, IF p.hblank THEN \h40 ELSE 0)
      [] addr = \h213F -> IF p.nmi_flag THEN \h80 ELSE 0
      [] OTHER -> 0

\* faulty variant: the flag is reported and left set
frame_ready_keeping(p) ==
    [ ppu |-> p, v |-> p.frame_complete ]

\* the flag is consumed by the call that reports it
frame_ready(p) ==
    IF p.frame_complete
    THEN [ ppu |-> [p EXCEPT !.frame_complete = FALSE], v |-> TRUE ]
    ELSE [ ppu |-> p, v |-> FALSE ]

\* Ppu::render_scanline with the private functions it calls; the framebuffer
\* row is the line buffer mapped through get_color_from_cgram
render_scanline(p, m) ==
    LET
        get_bg_tile_index(mem, bg_layer, tile_x, tile_y) ==
            LET tilemap_addr == \h0000 + bg_layer * \h800
                tile_addr == tilemap_addr + (tile_y * 32 + tile_x) * 2
            IN  IF tile_addr < VramLen
                THEN BitOr(Shl(ArrGet(mem.vram, tile_addr + 1), 8), ArrGet(mem.vram, tile_addr))
                ELSE 0

        \* the four bit-planes at vram[tile_addr..tile_addr + 3] packed as one nibble
        \* per bit position
        PackPlanes(mem, tile_addr) ==
            LET Color(bit) ==
                    (Shr(ArrGet(mem.vram, tile_addr), bit) % 2)
                    + 2 * (Shr(ArrGet(mem.vram, tile_addr + 1), bit) % 2)
                    + 4 * (Shr(ArrGet(mem.vram, tile_addr + 2), bit) % 2)
                    + 8 * (Shr(ArrGet(mem.vram, tile_addr + 3), bit) % 2)
                RECURSIVE Packed(_)
                Packed(bit) ==
                    IF bit = 8 THEN 0 ELSE Shl(Color(bit), bit * 4) + Packed(bit + 1)
            IN  Packed(0)

        \* tile_index * 32 + pixel_row * 4 is a u16 sum: it stays in range for the
        \* tile entries below 2048 that the images of this model hold
        get_tile_data(mem, tile_index, pixel_row) ==
            LET tile_addr == tile_index * 32 + pixel_row * 4
            IN  IF tile_addr + 3 < VramLen THEN PackPlanes(mem, tile_addr) ELSE 0

        get_sprite_data(mem, tile_index, pixel_row) ==
            LET tile_addr == \h4000 + tile_index * 32 + pixel_row * 4
            IN  IF tile_addr + 3 < VramLen THEN PackPlanes(mem, tile_addr) ELSE 0

        \* the assignments line_buffer[screen_x] = color_index made by the loops
        \* over tile_x in 0..32 and pixel_x in 0..8 for one layer, each as
        \* << position in the order of execution, screen_x, color_index >>
        render_bg_mode0(self, mem, bg_layer) ==
            LET scroll_x == self.bg_hscroll[bg_layer + 1]
                scroll_y == self.bg_vscroll[bg_layer + 1]
                y_pos == (self.scanline + scroll_y) % 256
                tile_y == y_pos \div 8
                pixel_y == y_pos % 8
                Pixel(tile_x, pixel_x) ==
                    LET x_pos == (tile_x * 8 + scroll_x) % 256
                        tile_index == get_bg_tile_index(mem, bg_layer, tile_x, tile_y)
                        tile_data == get_tile_data(mem, tile_index, pixel_y)
                        screen_x == (x_pos + pixel_x) % 256
                        color_index == Shr(tile_data, pixel_x * 2) % 4
                    IN  << bg_layer * 256 + tile_x * 8 + pixel_x, screen_x, color_index >>
            IN  { w \in { Pixel(i \div 8, i % 8) : i \in 0..255 } : w[3] # 0 }

        \* the assignments made by the loops over the 128 entries of OAM and
        \* pixel_x in 0..8, which run after those of the four layers
        render_sprites(self, mem) ==
            LET Covers(oam_addr) ==
                    /\ oam_addr + 3 < OamLen
                    /\ ArrGet(mem.oam, oam_addr + 1) <= self.scanline
                    /\ self.scanline < ArrGet(mem.oam, oam_addr + 1) + 8
                Pixel(sprite, pixel_x) ==
                    LET x == ArrGet(mem.oam, sprite * 4)
                        y == ArrGet(mem.oam, sprite * 4 + 1)
                        tile == ArrGet(mem.oam, sprite * 4 + 2)
                        sprite_data == get_sprite_data(mem, tile, self.scanline - y)
                        screen_x == x + pixel_x
                        color_index == Shr(sprite_data, pixel_x * 4) % 16
                    IN  << 1024 + sprite * 8 + pixel_x, screen_x, color_index >>
                pixels == { Pixel(sprite, pixel_x) :
                                sprite \in { s \in 0..127 : Covers(s * 4) },
                                pixel_x \in 0..7 }
            IN  { << w[1], w[2], w[3] + 16 >> :
                      w \in { v \in pixels : v[2] < 256 /\ v[3] # 0 } }

        get_color_from_cgram(mem, color_index) ==
            IF color_index = 0 THEN 0
            ELSE LET cgram_addr == (color_index * 2) % CgramLen
                 IN  IF cgram_addr + 1 < CgramLen
                     THEN LET color_15bit == BitOr(Shl(ArrGet(mem.cgram, cgram_addr + 1), 8),
                                                   ArrGet(mem.cgram, cgram_addr))
                              r == Shl(BitAnd(color_15bit, \h1F), 3)
                              g == Shl(BitAnd(Shr(color_15bit, 5), \h1F), 3)
                              b == Shl(BitAnd(Shr(color_15bit, 10), \h1F), 3)
                          IN  BitOr(BitOr(Shl(r, 16), Shl(g, 8)), b)
                     ELSE 0

        \* line_buffer.fill(0), then the layers in order, then the sprites: each
        \* index holds the value assigned to it last
        Composed(writes) ==
            [ screen_x \in { w[2] : w \in writes } |->
                LET at == { w \in writes : w[2] = screen_x }
                IN  (CHOOSE w \in at : \A v \in at : v[1] <= w[1])[3] ]

        \* framebuffer[scanline * 256 + x] = colors[x] for x in 0..256, where the
        \* index is inside the framebuffer
        Copied(framebuffer, colors, row) ==
            [ i \in (DOMAIN framebuffer \ row)
                    \cup { j \in row : ArrGet(colors, j - p.scanline * 256) # 0 } |->
                IF i \in row THEN colors[i - p.scanline * 256] ELSE framebuffer[i] ]

        Drawn(line) ==
            [p EXCEPT !.line_buffer = line,
                      !.framebuffer =
                          Copied(@, [ x \in DOMAIN line |-> get_color_from_cgram(m, line[x]) ],
                                 { p.scanline * 256 + x : x \in 0..255 }
                                     \cap (0..(256 * 224 - 1)))]
    IN  Drawn(Composed(
            (IF p.video_mode = "Mode0"
             THEN UNION { render_bg_mode0(p, m, bg) :
                              bg \in { l \in 0..3 : p.bg_enabled[l + 1] } }
             ELSE {})
            \cup (IF p.sprites_enabled THEN render_sprites(p, m) ELSE {})))

\* faulty variant: the scanline is rendered whether or not forced-blank is on
VisibleScanlineRendering(q, m) == [render_scanline(q, m) EXCEPT !.vblank = FALSE]

\* the arm of scanlines 0..=223
VisibleScanline(q, m) ==
    [(IF ~q.forced_blank THEN render_scanline(q, m) ELSE q) EXCEPT !.vblank = FALSE]

\* faulty variant: the NMI edge is raised whether or not NMI is enabled
EnterScanlineNmiUnconditional(q, m) ==
    CASE q.scanline \in 0..223 -> [ ppu |-> VisibleScanline(q, m), v |-> FALSE ]
      [] q.scanline = 224 ->
            [ ppu |-> [q EXCEPT !.vblank = TRUE, !.frame_complete = TRUE,
                                !.nmi_flag = TRUE],
              v |-> TRUE ]
      [] q.scanline \in 225..261 -> [ ppu |-> [q EXCEPT !.vblank = TRUE], v |-> FALSE ]
      [] q.scanline = 262 ->
            [ ppu |-> [q EXCEPT !.scanline = 0, !.frame_complete = FALSE,
                                !.nmi_flag = FALSE],
              v |-> FALSE ]
      [] OTHER -> [ ppu |-> q, v |-> FALSE ]

\* match self.scanline, entered with the dot counter back at 0 and the
\* scanline counter advanced; v is nmi_triggered
EnterScanline(q, m) ==
    CASE q.scanline \in 0..223 -> [ ppu |-> VisibleScanline(q, m), v |-> FALSE ]
      [] q.scanline = 224 ->
            [ ppu |-> [q EXCEPT !.vblank = TRUE, !.frame_complete = TRUE,
                                !.nmi_flag = IF q.nmi_enabled THEN TRUE ELSE @],
              v |-> q.nmi_enabled ]
      [] q.scanline \in 225..261 -> [ ppu |-> [q EXCEPT !.vblank = TRUE], v |-> FALSE ]
      [] q.scanline = 262 ->
            [ ppu |-> [q EXCEPT !.scanline = 0, !.frame_complete = FALSE,
                                !.nmi_flag = FALSE],
              v |-> FALSE ]
      [] OTHER -> [ ppu |-> q, v |-> FALSE ]

\* faulty variant: the dot counter wraps one dot late
PpuStepLongLine(p, m) ==
    LET Hblank(q) == [q EXCEPT !.hblank = (q.cycle >= 256)]
        Finish(r) == [ ppu |-> Hblank(r.ppu), v |-> r.v ]
    IN  Finish(IF p.cycle + 1 > 341
               THEN EnterScanline([p EXCEPT !.cycle = 0, !.scanline = @ + 1], m)
               ELSE [ ppu |-> [p EXCEPT !.cycle = @ + 1], v |-> FALSE ])

\* Ppu::step: one tick; v is the value returned
PpuStep(p, m) ==
    LET Hblank(q) == [q EXCEPT !.hblank = (q.cycle >= 256)]
        Finish(r) == [ ppu |-> Hblank(r.ppu), v |-> r.v ]
    IN  Finish(IF p.cycle + 1 >= 341
               THEN EnterScanline([p EXCEPT !.cycle = 0, !.scanline = @ + 1], m)
               ELSE [ ppu |-> [p EXCEPT !.cycle = @ + 1], v |-> FALSE ])

\* nothing counted yet: ticks performed, whether and where the host has noted
\* the scanline and dot, the ticks since then, the frame-complete edges seen
\* since then and the scanlines on which they were seen; whether NMI-enable
\* was ever written set; and the twin, a second Ppu given the same ticks and
\* register writes except that forced-blank is never switched on in it, with
\* the value its last tick returned
NoWatch ==
    [ ticks |-> 0, marked |-> FALSE, mark |-> << 0, 0 >>, since |-> 0,
      edges |-> 0, raised |-> {}, nmi_written |-> FALSE, entries |-> 0,
      twin |-> PpuNew, twin_ret |-> FALSE ]

----------------------------------------------------------------------------
(* Cartridge images supplied by the host *)

\* the checksum/complement words of a header at base: "good" sums to 0xFFFF,
\* "bad" does not, "none" leaves the image's own bytes
HeaderCells(base, kind) ==
    IF kind = "none" THEN EmptyArr
    ELSE (base + \h1C :> \h34) @@ (base + \h1D :> \h12) @@
         (base + \h1E :> (IF kind = "good" THEN \hCB ELSE \hCA)) @@ (base + \h1F :> \hED)

MakeRom(len, filled, sramByte, lo, hi) ==
    LET all == (\h7FD8 :> sramByte) @@ HeaderCells(lorom_header, lo)
                                    @@ HeaderCells(hirom_header, hi)
    IN  [ len |-> len,
          filled |-> filled,
          cells |-> [i \in {j \in DOMAIN all : j < len} |-> all[i]] ]

HeaderKinds == {"none", "bad", "good"}

RomLens ==
    { 0, \h7FC0, \h7FD4, \h7FD5, \h7FD7, \h7FD8, \h7FD9, \h7FE0, \h7FE1, \h8000,
      \hFFE0, \hFFE1, \h10000, \h20000 }

SramBytes == {0, 1, 2, 3, 4, 9}

\* every image Memory::new is tried on
Cartridges ==
    { MakeRom(len, filled, sb, lo, hi) :
        len \in RomLens, filled \in BOOLEAN, sb \in SramBytes,
        lo \in HeaderKinds, hi \in HeaderKinds }

\* the images the bus is exercised on
BusCartridges ==
    { MakeRom(\h10000, TRUE, 3, "good", "none"),     \* LoROM, 32 KiB SRAM
      MakeRom(\h8000, FALSE, 1, "none", "none"),     \* all-zero LoROM, 2 KiB SRAM
      MakeRom(\h20000, TRUE, 0, "none", "good"),     \* HiROM, no SRAM
      MakeRom(\h20000, TRUE, 3, "good", "good"),     \* both headers valid
      MakeRom(\h400000, TRUE, 2, "good", "none"),    \* 4 MiB LoROM, 8 KiB SRAM
      MakeRom(0, FALSE, 0, "none", "none") }         \* empty image

NoMemory == [ rom_type |-> "none" ]

NoOp == [ op |-> "none", addr |-> 0, value |-> 0, before |-> 0 ]

----------------------------------------------------------------------------
(* Construction: Memory::new(rom) *)

InitNew ==
    /\ cart \in Cartridges
    /\ phase = "raw"
    /\ memory = NoMemory
    /\ cpu = CpuNew
    /\ last = NoOp
    /\ nwrites = 0
    /\ ppu = PpuNew
    /\ watch = NoWatch

New ==
    /\ phase = "raw"
    /\ IF detect_sram_size_panics(cart)
       THEN /\ phase' = "panic"
            /\ memory' = memory
       ELSE /\ phase' = "ready"
            /\ memory' = NewMemory(cart)
    /\ last' = [NoOp EXCEPT !.op = "new"]
    /\ UNCHANGED <<cart, cpu, nwrites, ppu, watch>>

NextNew == New

SpecNew == InitNew /\ [][NextNew]_vars

----------------------------------------------------------------------------
(* The bus driven by the host: Memory::write(addr, value) *)

\* one or more addresses of every arm of Memory::read and Memory::write
WriteAddrs ==
    { \h001000, \h3F1000, \h801000, \hBF1000, \h7E1000, \h7F1000, \h7E2000,
      \h7FFFFF, \h006000, \h3F6000, \h806000, \hBF6000, \h007FFF,
      \h008000, \h3FFFFF, \h808000, \h408000, \h400000, \hC00000, \hFF8000,
      \h002116, \h002118, \h002104, \h002122, \h802118, \h002137,
      \h004016, \h004200, \h002000, \h700000 }

WriteValues == { \h01, \hAB }

InitBus ==
    /\ cart \in BusCartridges
    /\ phase = "ready"
    /\ memory = NewMemory(cart)
    /\ cpu = CpuNew
    /\ last = NoOp
    /\ nwrites = 0
    /\ ppu = PpuNew
    /\ watch = NoWatch

BusWrite(addr, value) ==
    /\ phase = "ready"
    /\ nwrites < MaxWrites
    /\ memory' = Write(memory, addr, value)
    /\ last' = [ op |-> "write", addr |-> addr, value |-> value,
                 before |-> Read(memory, addr) ]
    /\ nwrites' = nwrites + 1
    /\ UNCHANGED <<cart, phase, cpu, ppu, watch>>

NextBus == \E addr \in WriteAddrs, value \in WriteValues : BusWrite(addr, value)

SpecBus == InitBus /\ [][NextBus]_vars

----------------------------------------------------------------------------
(* The interpreter driven by the host: Cpu::step(&mut memory) *)

\* A 64 KiB LoROM image with prog at $00:8000, zero (BRK) elsewhere or the
\* pattern bytes when filled, and the BRK vector $00:FFFE pointing at $00:8000
ProgramRom(prog, filled) ==
    LET base == MakeRom(\h10000, filled, 0, "good", "none")
        code == [i \in 0..(Len(prog) - 1) |-> prog[i + 1]]
        vector == (\h7FFE :> \h00) @@ (\h7FFF :> \h80)
    IN  [base EXCEPT !.cells = code @@ vector @@ base.cells]

\* LDA #$AB; LDX #$CD; LDY #$12; SEC; SED; PHA
Prologue == << \hA9, \hAB, \hA2, \hCD, \hA0, \h12, \h38, \hF8, \h48 >>

\* every opcode byte, met in the initial state and after the prologue, and
\* the pattern image
CpuPrograms ==
    { ProgramRom(<<opcode>>, FALSE) : opcode \in 0..255 }
    \cup { ProgramRom(Prologue \o <<opcode>>, FALSE) : opcode \in 0..255 }
    \cup { ProgramRom(<<>>, TRUE) }

\* PHA PLA PHP PLP PHX PLX PHY PLY, JSR $8000, RTS, RTI, BRK, TXS, TCS,
\* LDX #$00, LDX #$FF, JMP $8000
StackTokens ==
    { << \h48 >>, << \h68 >>, << \h08 >>, << \h28 >>, << \hDA >>, << \hFA >>,
      << \h5A >>, << \h7A >>, << \h20, \h00, \h80 >>, << \h60 >>, << \h40 >>,
      << \h00 >>, << \h9A >>, << \h1B >>, << \hA2, \h00 >>, << \hA2, \hFF >>,
      << \h4C, \h00, \h80 >> }

\* one or two stack instructions, repeated through the BRK vector, and a
\* run of pulls longer than the stack page
StackPrograms ==
    { ProgramRom(t, FALSE) : t \in StackTokens }
    \cup { ProgramRom(t \o u, FALSE) : t \in StackTokens, u \in StackTokens }
    \cup { ProgramRom([i \in 1..PullRun |-> \h68], FALSE) }

InitCpu ==
    /\ cart \in CpuPrograms
    /\ phase = "ready"
    /\ memory = NewMemory(cart)
    /\ cpu = CpuNew
    /\ last = NoOp
    /\ nwrites = 0
    /\ ppu = PpuNew
    /\ watch = NoWatch

InitStack ==
    /\ cart \in StackPrograms
    /\ phase = "ready"
    /\ memory = NewMemory(cart)
    /\ cpu = CpuNew
    /\ last = NoOp
    /\ nwrites = 0
    /\ ppu = PpuNew
    /\ watch = NoWatch

\* one call of Cpu::step; the host stops calling once the cycle counter has
\* reached limit
Step(limit) ==
    LET Finish(r, opcode) ==
            /\ cpu' = [r.s.cpu EXCEPT !.cycles = @ + r.v]
            /\ memory' = r.s.mem
            /\ last' = [ op |-> "step", addr |-> cpu.pc, value |-> opcode,
                         before |-> cpu, cycles |-> r.v, wr |-> r.s.wr ]
        Fetched(opcode) ==
            Finish(execute_instruction(
                       [ cpu |-> [cpu EXCEPT !.pc = @ + 1], mem |-> memory, wr |-> <<>> ],
                       opcode),
                   opcode)
    IN  /\ phase = "ready"
        /\ cpu.cycles < limit
        /\ Fetched(Read(memory, cpu.pc))
        /\ UNCHANGED <<cart, phase, nwrites, ppu, watch>>

NextCpu == Step(MaxCpuCycles)

SpecCpu == InitCpu /\ [][NextCpu]_vars

NextStack == Step(MaxStackCycles)

SpecStack == InitStack /\ [][NextStack]_vars

----------------------------------------------------------------------------
(* Address classes used by the properties *)

Addr(bank, offset) == bank * 65536 + offset

SystemBank(bank) == bank \in \h00..\h3F \/ bank \in \h80..\hBF

\* offset 0x8000..=0xFFFF of the system banks, any offset of 0x40..=0x6F and 0xC0..=0xFF
IsRomWindow(addr) ==
    \/ SystemBank(Bank(addr)) /\ Offset(addr) \in \h8000..\hFFFF
    \/ Bank(addr) \in \h40..\h6F
    \/ Bank(addr) \in \hC0..\hFF

\* the banks the properties sample of 0x00..=0x3F and 0x80..=0xBF
SampleSystemBanks == { \h00, \h01, \h3F, \h80, \h81, \hBF }

SampleRomOffsets == { \h8000, \h8001, \hFFC0, \hFFFF }

SampleHiRomBanks == { \h40, \h41, \h6F, \hC0, \hC1, \hFF }

SampleHiRomOffsets == { \h0000, \h7FFF, \h8000, \hFFFF }

\* the byte of the image at index i, 0 outside the image
ImageByte(rom, i) == IF i < rom.len THEN RomByte(rom, i) ELSE 0

----------------------------------------------------------------------------
(* C1 *)

\* C1 (as stated): a write of v to any address a, immediately followed by a
\* read of a, returns v or 0, whatever the cartridge image holds.
C1_WriteReadValueOrZero ==
    last.op = "write" => Read(memory, last.addr) \in {last.value, 0}

\* C1 (amended): a write of v to a followed by a read of a returns v, or 0,
\* or, when a lies in a cartridge-ROM window, the unchanged ROM byte that the
\* read of a returned before the write.
C1_WriteReadValueZeroOrRom ==
    last.op = "write" =>
        \/ Read(memory, last.addr) \in {last.value, 0}
        \/ IsRomWindow(last.addr) /\ Read(memory, last.addr) = last.before

\* a write to a ROM address of a non-zero image was read back as the ROM byte
C1_Witness ==
    /\ last.op = "write"
    /\ IsRomWindow(last.addr)
    /\ Read(memory, last.addr) \notin {last.value, 0}

----------------------------------------------------------------------------
(* C2 *)

\* C2: with SRAM present, a write of v to bank:offset, for a bank in
\* 0x00..=0x3F or 0x80..=0xBF and an offset in 0x6000..=0x7FFF whose distance
\* from 0x6000 is below the SRAM size, reads back v there and through every
\* other such bank.
C2_SramSharedByAllSystemBanks ==
    ( /\ last.op = "write"
      /\ memory.sram_size > 0
      /\ SystemBank(Bank(last.addr))
      /\ Offset(last.addr) \in \h6000..\h7FFF
      /\ Offset(last.addr) - \h6000 < memory.sram_size )
    => /\ Read(memory, last.addr) = last.value
       /\ \A b \in SampleSystemBanks :
              Read(memory, Addr(b, Offset(last.addr))) = last.value

----------------------------------------------------------------------------
(* C3 *)

\* C3: a write to a cartridge-ROM address changes no part of the Memory (ROM
\* image, WRAM, SRAM, VRAM, OAM, CGRAM, register map), so every read returns
\* afterwards what it returned before.
C3_RomWriteChangesNothing ==
    [][ (last'.op = "write" /\ IsRomWindow(last'.addr)) => memory' = memory ]_vars

\* a ROM write was performed on a Memory whose WRAM, registers or VRAM had
\* been written before
C3_Witness ==
    /\ last.op = "write"
    /\ IsRomWindow(last.addr)
    /\ nwrites = 2
    /\ \/ memory.wram # EmptyArr
       \/ memory.vram # EmptyArr
       \/ memory.sram # EmptyArr
       \/ memory.registers # EmptyArr

----------------------------------------------------------------------------
(* C4 *)

IsWramMirror(addr) ==
    /\ Offset(addr) \in \h0000..\h1FFF
    /\ SystemBank(Bank(addr)) \/ Bank(addr) = \h7E

----------------------------------------------------------------------------
(* C5 *)

----------------------------------------------------------------------------
(* C6 *)

\* C6: under the HiROM layout every offset of banks 0x40..=0x6F and
\* 0xC0..=0xFF reads rom[(bank & 0x3F) * 0x10000 + offset], 0 outside the image.
C6_HiRomWindow ==
    (phase = "ready" /\ memory.rom_type = "HiRom") =>
        \A b \in SampleHiRomBanks, off \in SampleHiRomOffsets :
            Read(memory, Addr(b, off)) = ImageByte(memory.rom, (b % 64) * 65536 + off)

----------------------------------------------------------------------------
(* C7 *)

\* a header of 0x20 bytes at base lies inside the image
HeaderPresent(rom, base) == rom.len >= base + 32

\* checksum + complement of the header at base is 0xFFFF
HeaderValid(rom, base) ==
    /\ HeaderPresent(rom, base)
    /\ ( RomByte(rom, base + 28) + 256 * RomByte(rom, base + 29)
         + RomByte(rom, base + 30) + 256 * RomByte(rom, base + 31) ) % 65536 = 65535

\* C7: the detected layout is HiROM only when the HiROM candidate header is
\* valid and the LoROM candidate is not; a tie, no valid header, or an absent
\* header gives LoROM.
C7_HiRomOnlyWithoutTie ==
    (phase = "ready" /\ memory.rom_type = "HiRom") =>
        (HeaderValid(cart, 65472) /\ ~HeaderValid(cart, 32704))

----------------------------------------------------------------------------
(* C8 *)

\* C8: construction never aborts, whatever the image's length, and an image
\* too short to hold the header gets LoROM, no SRAM and the title "Unknown".
\* "Too short" is taken in its narrowest sense, an image that ends at or
\* before the header's first byte 0x7FC0, so that a violation does not rest on
\* how a partly present header is to be treated.
C8_ConstructionNeverFails ==
    /\ phase # "panic"
    /\ (phase = "ready" /\ cart.len <= 32704) =>
          /\ memory.rom_type = "LoRom"
          /\ memory.sram_size = 0
          /\ get_rom_title(memory) = UnknownTitle

----------------------------------------------------------------------------
(* Vocabulary of the interpreter properties *)

\* the last step fetched an opcode byte that has no entry in the decode table
UnknownStep(l) == l.op = "step" /\ ~get_opcode_info(l.value).some

Registers == { "a", "x", "y", "sp", "dp", "db", "pb", "p", "e_flag", "m_flag", "x_flag" }

PushOpcodes == { \h48, \h08, \hDA, \h5A }

PullOpcodes == { \h68, \h28, \hFA, \h7A }

\* the 256 bytes of the emulation-mode stack page
StackPage == \h0100..\h01FF

----------------------------------------------------------------------------
(* C9: a step that fetches an opcode byte without a decode-table entry      *)
(* moves PC forward by exactly 1, returns 2 cycles, writes nothing to the   *)
(* bus and leaves A, X, Y, SP, DP, DB, PB, P and the E/M/X flags as they    *)
(* were; the step after it fetches the byte that follows the unknown one.   *)

C9_UnknownOpcodeIsSkipped ==
    [][ /\ UnknownStep(last') =>
              /\ last'.addr = cpu.pc
              /\ cpu'.pc = cpu.pc + 1
              /\ last'.cycles = 2
              /\ last'.wr = <<>>
              /\ memory' = memory
              /\ \A f \in Registers : cpu'[f] = cpu[f]
        /\ UnknownStep(last) => last'.addr = last.addr + 1
      ]_vars

\* an unknown opcode met with non-zero registers, a used stack and carry and
\* decimal set
C9_Witness ==
    /\ UnknownStep(last)
    /\ last.before.a = \hAB
    /\ last.before.x = \hCD
    /\ last.before.y = \h12
    /\ last.before.sp = \h01FE
    /\ get_flag(last.before, FLAG_CARRY)
    /\ get_flag(last.before, FLAG_DECIMAL)
    /\ cpu.pc = last.addr + 1
    /\ last.cycles = 2

----------------------------------------------------------------------------
(* C10: from the state of Cpu::new, after every step of any program of      *)
(* pushes, pulls, JSR, RTS, RTI, BRK, TXS and TCS the stack pointer is in   *)
(* page 1 (SP & 0xFF00 = 0x0100); a one-byte push at SP = 0x0100 leaves     *)
(* SP = 0x01FF and a one-byte pull at SP = 0x01FF leaves SP = 0x0100.       *)

C10_StackStaysInPageOne ==
    /\ BitAnd(cpu.sp, \hFF00) = \h0100
    /\ last.op = "step" =>
          /\ (last.value \in PushOpcodes /\ last.before.sp = \h0100) => cpu.sp = \h01FF
          /\ (last.value \in PullOpcodes /\ last.before.sp = \h01FF) => cpu.sp = \h0100

\* a push that wraps from 0x0100 to 0x01FF once every byte of the stack page
\* has been written by an earlier push
C10_Witness ==
    /\ last.op = "step"
    /\ last.value \in PushOpcodes
    /\ last.before.sp = \h0100
    /\ cpu.sp = \h01FF
    /\ StackPage \subseteq DOMAIN memory.wram

----------------------------------------------------------------------------
(* C11 *)

\* C11: while the E latch is set, the memory-width bit (0x20) and the
\* index-width bit (0x10) of P are both set, also after PLP or RTI has pulled
\* a byte in which they are clear.
C11_EmulationForcesWidthBits ==
    cpu.e_flag => BitAnd(cpu.p, \h30) = \h30

----------------------------------------------------------------------------
(* Arithmetic programs: tests/cpu_tests.rs test_adc_immediate,
   test_adc_overflow, test_sbc_immediate, test_sbc_overflow *)

\* Cpu::new and one of the programs TSC; LDA #a; CLC or SEC; ADC or SBC, with
\* an immediate operand or with the operand read from $8002 (the byte a), and
\* TSC; LDA #a; CLC; ADC #op; CLC or SEC; SBC #op.  TSC leaves 0x01 in the
\* high byte of A; the operands lie around the carry, borrow and sign
\* boundaries.
InitAlu ==
    LET operands == { \h00, \h01, \h0F, \h10, \h3F, \h40, \h50, \h7F,
                      \h80, \h81, \h90, \hB0, \hD0, \hF0, \hFE, \hFF }
        programs ==
            { ProgramRom(<< \h3B, \hA9, a, c, i, op >>, FALSE) :
                  a \in 0..255, c \in { \h18, \h38 }, i \in { \h69, \hE9 },
                  op \in operands }
            \cup { ProgramRom(<< \h3B, \hA9, a, c, i, \h02, \h80 >>, FALSE) :
                  a \in 0..255, c \in { \h18, \h38 }, i \in { \h6D, \hED } }
            \cup { ProgramRom(<< \h3B, \hA9, a, \h18, \h69, op, c, \hE9, op >>, FALSE) :
                  a \in 0..255, c \in { \h18, \h38 }, op \in operands }
    IN  /\ cart \in programs
        /\ phase = "ready"
        /\ memory = NewMemory(cart)
        /\ cpu = CpuNew
        /\ last = NoOp
        /\ nwrites = 0
        /\ ppu = PpuNew
        /\ watch = NoWatch

NextAlu == Step(MaxAluCycles)

SpecAlu == InitAlu /\ [][NextAlu]_vars

----------------------------------------------------------------------------
(* C12 *)

\* the operand byte of the instruction of step l: the byte after the opcode
\* for an immediate operand, the byte at the absolute address otherwise
StepOperand(l, immediate) ==
    IF l.value \in immediate
    THEN Read(memory, l.addr + 1)
    ELSE Read(memory, MakeWord(Read(memory, l.addr + 1), Read(memory, l.addr + 2)))

\* the carry flag before step l, as 0 or 1
CarryIn(l) == IF get_flag(l.before, FLAG_CARRY) THEN 1 ELSE 0

\* Z and N of c are those of the 8-bit value r
NzOfByte(c, r) ==
    /\ get_flag(c, FLAG_ZERO) <=> (r = 0)
    /\ get_flag(c, FLAG_NEGATIVE) <=> (r >= 128)

\* step l was an ADC in 8-bit accumulator mode with the decimal flag clear
AdcStep(l) ==
    /\ l.op = "step"
    /\ l.value \in { \h69, \h6D }
    /\ l.before.m_flag
    /\ ~get_flag(l.before, FLAG_DECIMAL)

\* C12: in 8-bit accumulator mode with decimal clear, ADC leaves
\* (A_low + operand + c) mod 256 in the low byte of A, sets carry iff the sum
\* exceeds 0xFF, sets overflow iff A_low and the operand have the same sign
\* bit and the result's differs, sets Z and N from the 8-bit result and keeps
\* the high byte of A.
C12_AdcEightBit ==
    AdcStep(last) =>
        LET lo == last.before.a % 256
            op == StepOperand(last, { \h69 })
            sum == lo + op + CarryIn(last)
            r == sum % 256
        IN  /\ cpu.a % 256 = r
            /\ cpu.a \div 256 = last.before.a \div 256
            /\ get_flag(cpu, FLAG_CARRY) <=> (sum > 255)
            /\ get_flag(cpu, FLAG_OVERFLOW)
                 <=> ((lo >= 128) = (op >= 128) /\ (r >= 128) # (lo >= 128))
            /\ NzOfByte(cpu, r)

\* 0x7F + 0x01 with carry in: the sum wraps into the sign bit, overflow is
\* set, carry is not, and the high byte of A is 0x01
C12_Witness ==
    /\ AdcStep(last)
    /\ last.before.a = \h017F
    /\ StepOperand(last, { \h69 }) = \h01
    /\ CarryIn(last) = 1
    /\ cpu.a = \h0181
    /\ get_flag(cpu, FLAG_OVERFLOW)
    /\ ~get_flag(cpu, FLAG_CARRY)

----------------------------------------------------------------------------
(* C13 *)

\* step l was an SBC in 8-bit accumulator mode with the decimal flag clear
SbcStep(l) ==
    /\ l.op = "step"
    /\ l.value \in { \hE9, \hED }
    /\ l.before.m_flag
    /\ ~get_flag(l.before, FLAG_DECIMAL)

\* C13: in 8-bit accumulator mode with decimal clear, SBC leaves
\* (A_low - operand - (1 - c)) mod 256 in the low byte of A, sets carry iff
\* A_low >= operand + (1 - c), sets overflow iff A XOR operand and
\* A XOR result both have bit 7 set, sets Z and N from the 8-bit result and
\* keeps the high byte of A.
C13_SbcEightBit ==
    SbcStep(last) =>
        LET lo == last.before.a % 256
            op == StepOperand(last, { \hE9 })
            borrow == 1 - CarryIn(last)
            r == (lo - op - borrow) % 256
        IN  /\ cpu.a % 256 = r
            /\ cpu.a \div 256 = last.before.a \div 256
            /\ get_flag(cpu, FLAG_CARRY) <=> (lo >= op + borrow)
            /\ get_flag(cpu, FLAG_OVERFLOW)
                 <=> ((lo >= 128) # (op >= 128) /\ (lo >= 128) # (r >= 128))
            /\ NzOfByte(cpu, r)

\* 0x80 - 0x01 with carry set: no borrow, the result leaves the sign bit,
\* overflow is set, and the high byte of A is 0x01
C13_Witness ==
    /\ SbcStep(last)
    /\ last.before.a = \h0180
    /\ StepOperand(last, { \hE9 }) = \h01
    /\ CarryIn(last) = 1
    /\ cpu.a = \h017F
    /\ get_flag(cpu, FLAG_OVERFLOW)
    /\ get_flag(cpu, FLAG_CARRY)

----------------------------------------------------------------------------
(* C14 *)

\* step l is the SBC #op that ends the first pass over a program
\* TSC; LDA #a; CLC; ADC #op; CLC or SEC; SBC #op
RoundTripStep(l) ==
    /\ l.op = "step"
    /\ l.value = \hE9
    /\ l.addr = \h8007
    /\ l.before.cycles = 10
    /\ Read(memory, \h8003) = \h18
    /\ Read(memory, \h8004) = \h69
    /\ Read(memory, \h8005) = Read(memory, \h8008)

\* the accumulator before the ADC of such a program: 0x01 from TSC in the
\* high byte, the operand of LDA in the low byte
RoundTripA == MakeWord(Read(memory, \h8002), \h01)

\* C14 as stated: ADC with carry clear followed by SBC of the same operand
\* with carry clear restores A modulo the width mask 0xFF.
C14_AdcSbcCarryClearRestoresA ==
    (RoundTripStep(last) /\ CarryIn(last) = 0) =>
        cpu.a % 256 = RoundTripA % 256

\* C14 amended: ADC with carry clear followed by SBC of the same operand
\* with carry set restores A modulo the width mask 0xFF.
C14_AdcSbcCarrySetRestoresA ==
    (RoundTripStep(last) /\ CarryIn(last) = 1) =>
        cpu.a % 256 = RoundTripA % 256

\* 0xF0 + 0x50 wraps to 0x40 with a carry out; SEC; SBC #$50 returns to 0xF0
C14_Witness ==
    /\ RoundTripStep(last)
    /\ CarryIn(last) = 1
    /\ RoundTripA = \h01F0
    /\ Read(memory, \h8005) = \h50
    /\ last.before.a = \h0140
    /\ cpu.a = \h01F0

----------------------------------------------------------------------------
(* One instruction at each register width.  The fields of Cpu are public:
   the host assigns registers and width flags before it steps, as
   tests/cpu_tests.rs does with a, x, sp, pc and p. *)

\* Cpu::new() with a, x, y, the width flags and P assigned by the host, and a
\* program of one instruction with two operand bytes.  The width flags and
\* their bits in P agree, and a 16-bit width implies native mode.
InitWidth ==
    LET values == << \h0000, \h0080, \h00FF, \h0100, \h1000,
                     \h7FFF, \h8000, \h9000, \hFF80, \hFFFF >>
        modes == { << TRUE, TRUE, TRUE >>, << TRUE, TRUE, FALSE >>,
                   << TRUE, FALSE, FALSE >>, << FALSE, TRUE, FALSE >>,
                   << FALSE, FALSE, FALSE >> }
        opcodes == { \hC9, \hE0, \hC0,                  \* CMP CPX CPY
                     \hA9, \hA2, \hA0,                  \* LDA LDX LDY
                     \hAA, \hA8, \h8A, \h98, \hBA,      \* TAX TAY TXA TYA TSX
                     \h9B, \hBB, \h3B,                  \* TXY TYX TSC
                     \h68, \hFA, \h7A,                  \* PLA PLX PLY
                     \h29, \h09, \h49,                  \* AND ORA EOR
                     \h1A, \h3A, \hE6, \hC6,            \* INC DEC (A, dp)
                     \h0A, \h4A, \h06, \h46 }           \* ASL LSR (A, dp)
        operands == { << \h00, \h00 >>, << \h80, \h00 >>, << \h00, \h10 >>,
                      << \h00, \h80 >>, << \h42, \h7F >>, << \hFF, \hFF >> }
    IN  /\ cart \in { ProgramRom(<< opcode >> \o operand, FALSE) :
                          opcode \in opcodes, operand \in operands }
        /\ phase = "ready"
        /\ memory = NewMemory(cart)
        /\ \E i \in 1..Len(values), mode \in modes, flags \in { \h00, \hC3 } :
              cpu = [CpuNew EXCEPT
                        !.a = values[i],
                        !.x = values[((i + 2) % Len(values)) + 1],
                        !.y = values[((i + 5) % Len(values)) + 1],
                        !.m_flag = mode[1],
                        !.x_flag = mode[2],
                        !.e_flag = mode[3],
                        !.p = \h04 + flags + (IF mode[1] THEN \h20 ELSE 0)
                                           + (IF mode[2] THEN \h10 ELSE 0)]
        /\ last = NoOp
        /\ nwrites = 0
        /\ ppu = PpuNew
        /\ watch = NoWatch

\* `register_value as i16 - operand as i16` of Cpu::compare overflows i16:
\* a build with overflow checks panics there, a build without them wraps
\* (the outcome Step models).  r is what read_operand returns for the
\* compare fetched at pc.
ComparePanics ==
    LET info == get_opcode_info(Read(memory, cpu.pc))
        Mode(inf) == IF inf.some THEN inf.mode ELSE "Implied"
        Register(inf) ==
            CASE inf.operation = "Compare" -> Narrow(cpu.a, cpu.m_flag)
              [] inf.operation = "CompareX" -> Narrow(cpu.x, cpu.x_flag)
              [] inf.operation = "CompareY" -> Narrow(cpu.y, cpu.x_flag)
        Overflows(d) == d > 32767 \/ d < -32768
        Operand(inf) ==
            read_operand([ cpu |-> [cpu EXCEPT !.pc = @ + 1], mem |-> memory,
                           wr |-> <<>> ],
                         Mode(inf), inf.operation # "Compare").v
    IN  /\ phase = "ready"
        /\ cpu.cycles < MaxWidthCycles
        /\ info.some
        /\ info.operation \in { "Compare", "CompareX", "CompareY" }
        /\ Overflows(ToI16(Register(info)) - ToI16(Operand(info)))
        /\ phase' = "panic"
        /\ UNCHANGED <<cart, memory, cpu, last, nwrites, ppu, watch>>

NextWidth == Step(MaxWidthCycles) \/ ComparePanics

SpecWidth == InitWidth /\ [][NextWidth]_vars

----------------------------------------------------------------------------
(* C15 *)

\* the top bit of v at a width of 8 or of 16 bits
TopBit(v, is_8bit) == IF is_8bit THEN BitAnd(v, \h80) # 0 ELSE BitAnd(v, \h8000) # 0

\* v masked to a width of 8 or of 16 bits
AtWidth(v, is_8bit) == IF is_8bit THEN v % 256 ELSE v % 65536

\* C15: CMP #, CPX # and CPY # leave A, X, Y and overflow as they were and,
\* at the register's width (M for CMP, X for CPX and CPY), set carry iff
\* register >= operand, zero iff they are equal, and negative to the top bit
\* of register - operand at that width.
C15_CompareAtRegisterWidth ==
    (last.op = "step" /\ last.value \in { \hC9, \hE0, \hC0 }) =>
        LET b == last.before
            is_8bit == IF last.value = \hC9 THEN b.m_flag ELSE b.x_flag
            reg == AtWidth(CASE last.value = \hC9 -> b.a
                             [] last.value = \hE0 -> b.x
                             [] last.value = \hC0 -> b.y, is_8bit)
            op == IF is_8bit
                  THEN Read(memory, last.addr + 1)
                  ELSE MakeWord(Read(memory, last.addr + 1), Read(memory, last.addr + 2))
        IN  /\ cpu.a = b.a /\ cpu.x = b.x /\ cpu.y = b.y
            /\ get_flag(cpu, FLAG_OVERFLOW) = get_flag(b, FLAG_OVERFLOW)
            /\ get_flag(cpu, FLAG_CARRY) <=> (reg >= op)
            /\ get_flag(cpu, FLAG_ZERO) <=> (reg = op)
            /\ get_flag(cpu, FLAG_NEGATIVE) <=> TopBit(AtWidth(reg - op, is_8bit), is_8bit)

----------------------------------------------------------------------------
(* C16 *)

\* LDA # TXA TYA TSC PLA AND # ORA # EOR # INC A DEC A ASL A LSR A
AccumulatorResults ==
    { \hA9, \h8A, \h98, \h3B, \h68, \h29, \h09, \h49, \h1A, \h3A, \h0A, \h4A }

\* LDX # TAX TSX TYX PLX
XResults == { \hA2, \hAA, \hBA, \hBB, \hFA }

\* LDY # TAY TXY PLY
YResults == { \hA0, \hA8, \h9B, \h7A }

\* INC dp, DEC dp, ASL dp, LSR dp
MemoryResults == { \hE6, \hC6, \h06, \h46 }

\* Z and N of c are those of result at a width of 8 or of 16 bits
NzAtWidth(c, result, is_8bit) ==
    /\ get_flag(c, FLAG_ZERO) <=> (AtWidth(result, is_8bit) = 0)
    /\ get_flag(c, FLAG_NEGATIVE) <=> TopBit(result, is_8bit)

\* C16: after a load, transfer, pull, logical operation, increment,
\* decrement or shift, for every combination of the M and X width flags, Z is
\* set iff the result masked to the operation's width is zero and N is bit 7
\* of the result at 8 bits and bit 15 at 16 bits; the width is M's for an
\* accumulator or memory result and X's for an X or Y result.
C16_ZeroNegativeAtWidth ==
    last.op = "step" =>
        LET b == last.before
            dp_addr == b.dp + Read(memory, last.addr + 1)
        IN  /\ last.value \in AccumulatorResults => NzAtWidth(cpu, cpu.a, b.m_flag)
            /\ last.value \in XResults => NzAtWidth(cpu, cpu.x, b.x_flag)
            /\ last.value \in YResults => NzAtWidth(cpu, cpu.y, b.x_flag)
            /\ last.value \in MemoryResults =>
                  NzAtWidth(cpu,
                            MakeWord(Read(memory, dp_addr), Read(memory, dp_addr + 1)),
                            b.m_flag)

----------------------------------------------------------------------------
(* Every instruction met with every status flag clear and with every status
   flag set *)

\* Cpu::new and a program LDA #f; PHA; PLP; opcode b1 b2: PLP leaves P = f,
\* then one instruction of each opcode byte runs with two operand bytes
InitFrame ==
    LET operands == { << \h00, \h00 >>, << \h7F, \h00 >>,
                      << \h80, \h01 >>, << \hFE, \hFF >> }
        programs ==
            { ProgramRom(<< \hA9, f, \h48, \h28, opcode >> \o operand, FALSE) :
                  f \in { \h30, \h71, \hBE, \hFF }, opcode \in 0..255,
                  operand \in operands }
    IN  /\ cart \in programs
        /\ phase = "ready"
        /\ memory = NewMemory(cart)
        /\ cpu = CpuNew
        /\ last = NoOp
        /\ nwrites = 0
        /\ ppu = PpuNew
        /\ watch = NoWatch

NextFrame == Step(MaxFrameCycles)

SpecFrame == InitFrame /\ [][NextFrame]_vars

----------------------------------------------------------------------------
(* C17 *)

\* the operations that nominally leave carry, overflow, decimal and
\* IRQ-disable alone: loads, stores, transfers, INC/DEC, AND/ORA/EOR, pushes,
\* PLA/PLX/PLY, JMP, JSR, RTS, branches and NOP
FlagNeutral ==
    { "LoadA", "LoadX", "LoadY", "StoreA", "StoreX", "StoreY", "StoreZero",
      "TransferAX", "TransferAY", "TransferXA", "TransferYA", "TransferSX",
      "TransferXS", "TransferXY", "TransferYX", "TransferSC", "TransferCS",
      "Inc", "Dec", "And", "Or", "Xor",
      "PushA", "PushX", "PushY", "PushP", "PullA", "PullX", "PullY",
      "Jump", "JumpIndirect", "JumpSubroutine", "ReturnFromSubroutine",
      "Branch", "Nop" }

\* compares and shifts, which nominally set carry
CarryOnly == { "Compare", "CompareX", "CompareY", "ShiftLeft", "ShiftRight" }

\* step l executed a decoded operation of the set ops
StepOf(l, ops) ==
    /\ l.op = "step"
    /\ get_opcode_info(l.value).some
    /\ get_opcode_info(l.value).operation \in ops

\* C17: loads, stores, transfers, INC/DEC, AND/ORA/EOR, pushes, PLA/PLX/PLY,
\* JMP, JSR, RTS, branches and NOP leave carry, overflow, decimal and
\* IRQ-disable (0x01, 0x40, 0x08, 0x04) as they were; compares and shifts
\* leave overflow and decimal as they were.
C17_UnrelatedFlagsKept ==
    /\ StepOf(last, FlagNeutral) =>
          BitAnd(cpu.p, \h4D) = BitAnd(last.before.p, \h4D)
    /\ StepOf(last, CarryOnly) =>
          BitAnd(cpu.p, \h48) = BitAnd(last.before.p, \h48)

\* INC $00 met with every flag set: Z and N are cleared and the four other
\* flags stay set
C17_Witness ==
    /\ StepOf(last, FlagNeutral)
    /\ last.value = \hE6
    /\ last.before.p = \hFF
    /\ cpu.p = \h7D

----------------------------------------------------------------------------
(* Pushes and pulls in pairs: tests/cpu_tests.rs test_multiple_pushes_pulls,
   test_php_plp *)

\* Cpu::new and either a nested program
\*   LDX #s; TXS; LDA #a; LDX #x; LDY #y; push1; push2; filler; pull2; pull1
\* (the pushes at $8009 and $800A, the pulls at $800D and $800E, SP starting
\* at 0x0100 | s so that the pairs meet the wrap), or the long program of 256
\* times INC A; PHA followed by 256 times PLA
InitLifo ==
    LET pushes == { \h48, \hDA, \h5A, \h08 }
        pulls == { \h68, \hFA, \h7A, \h28 }
        fillers == { << \hA9, \h00 >>,        \* LDA #$00
                     << \hEA, \hEA >>,        \* NOP; NOP
                     << \hAA, \h38 >>,        \* TAX; SEC
                     << \hE6, \h10 >> }       \* INC $10
        loads == { << \h11, \h22, \h33 >>, << \h80, \h00, \hFF >> }
        nested ==
            { ProgramRom(<< \hA2, s, \h9A, \hA9, r[1], \hA2, r[2], \hA0, r[3],
                            push1, push2 >> \o filler \o << pull2, pull1 >>, FALSE) :
                  s \in { \hFF, \h80, \h01, \h00 }, r \in loads,
                  push1 \in pushes, push2 \in pushes, filler \in fillers,
                  pull2 \in pulls, pull1 \in pulls }
        long == ProgramRom([i \in 1..768 |->
                               IF i > 512 THEN \h68
                               ELSE IF i % 2 = 1 THEN \h1A ELSE \h48], FALSE)
    IN  /\ cart \in nested \cup { long }
        /\ phase = "ready"
        /\ memory = NewMemory(cart)
        /\ cpu = CpuNew
        /\ last = NoOp
        /\ nwrites = 0
        /\ ppu = PpuNew
        /\ watch = NoWatch

\* the host steps a nested program through its last pull and the long
\* program through its last PLA
NextLifo ==
    Step(IF Read(memory, \h8000) = \h1A THEN MaxLifoRunCycles ELSE MaxLifoCycles)

SpecLifo == InitLifo /\ [][NextLifo]_vars

----------------------------------------------------------------------------
(* C18 *)

\* the byte the push opcode at address pc of a nested program wrote: the low
\* byte loaded into its register, or P as the loads left it (0x34 with Z and
\* N of the last load, LDY #y)
PushedAt(pc) ==
    LET y == Read(memory, \h8008)
    IN  CASE Read(memory, pc) = \h48 -> Read(memory, \h8004)
          [] Read(memory, pc) = \hDA -> Read(memory, \h8006)
          [] Read(memory, pc) = \h5A -> y
          [] Read(memory, pc) = \h08 ->
                \h34 + (IF y = 0 THEN \h02 ELSE 0) + (IF y >= 128 THEN \h80 ELSE 0)

\* the byte the pull of step l left in its register
PulledBy(l) ==
    CASE l.value = \h68 -> cpu.a % 256
      [] l.value = \hFA -> cpu.x % 256
      [] l.value = \h7A -> cpu.y % 256
      [] l.value = \h28 -> cpu.p

\* step l is the pull at address pc in the first pass over a nested program
NestedPull(l, pc) ==
    /\ l.op = "step"
    /\ l.addr = pc
    /\ l.value \in PullOpcodes
    /\ Read(memory, \h8000) = \hA2
    /\ cpu.cycles <= 28

\* step l is the j-th PLA of the long program, j in 1..256
LongPull(l, j) ==
    /\ l.op = "step"
    /\ l.addr = \h8200 + (j - 1)
    /\ l.value = \h68
    /\ Read(memory, \h8000) = \h1A
    /\ cpu.cycles <= 2304

\* C18: in emulation mode each pull returns the byte written by the most
\* recent unmatched push, whatever ran in between that did not touch the
\* stack, and after a matched pair SP is what it was before the push, also
\* across the wrap between 0x0100 and 0x01FF and with 256 pushes outstanding.
C18_StackIsLifo ==
    LET sp0 == \h0100 + Read(memory, \h8001)
        sp1 == IF sp0 = \h0100 THEN \h01FF ELSE sp0 - 1
    IN  /\ NestedPull(last, \h800D) =>
              /\ PulledBy(last) = PushedAt(\h800A)
              /\ cpu.sp = sp1
        /\ NestedPull(last, \h800E) =>
              /\ PulledBy(last) = PushedAt(\h8009)
              /\ cpu.sp = sp0
        /\ \A j \in 1..256 :
              LongPull(last, j) =>
                  /\ cpu.a % 256 = (257 - j) % 256
                  /\ j = 256 => cpu.sp = \h01FF

\* PHA at SP = 0x0100 wraps to 0x01FF; after PHP, LDA #$00 and PLX, the PLA
\* at SP = 0x01FF returns the pushed 0x11 and leaves SP = 0x0100
C18_Witness ==
    /\ NestedPull(last, \h800E)
    /\ last.value = \h68
    /\ Read(memory, \h8009) = \h48
    /\ Read(memory, \h800A) = \h08
    /\ Read(memory, \h800B) = \hA9
    /\ Read(memory, \h800D) = \hFA
    /\ Read(memory, \h8004) = \h11
    /\ last.before.a % 256 = \h00
    /\ last.before.sp = \h01FF
    /\ cpu.a % 256 = \h11
    /\ cpu.sp = \h0100

----------------------------------------------------------------------------
(* C19 *)

\* BPL BMI BVC BVS BCC BCS BNE BEQ
BranchOpcodes == { \h10, \h30, \h50, \h70, \h90, \hB0, \hD0, \hF0 }

\* the flag a branch opcode tests
BranchFlag(opcode) ==
    CASE opcode \in { \h10, \h30 } -> FLAG_NEGATIVE
      [] opcode \in { \h50, \h70 } -> FLAG_OVERFLOW
      [] opcode \in { \h90, \hB0 } -> FLAG_CARRY
      [] opcode \in { \hD0, \hF0 } -> FLAG_ZERO

\* the value of that flag on which the branch is taken
BranchPolarity(opcode) == opcode \in { \h30, \h70, \hB0, \hF0 }

\* the displacement byte d as a signed number
SignExtended(d) == IF d >= 128 THEN d - 256 ELSE d

\* C19: a branch at address p is taken iff the flag it tests equals its
\* polarity; PC becomes p + 2 plus the sign-extended byte at p + 1 when
\* taken and p + 2 when not; nothing is written and no register or flag
\* other than PC changes.
C19_BranchTakenIffFlag ==
    (last.op = "step" /\ last.value \in BranchOpcodes) =>
        LET taken == get_flag(last.before, BranchFlag(last.value))
                       = BranchPolarity(last.value)
            target == last.addr + 2 + SignExtended(Read(memory, last.addr + 1))
        IN  /\ cpu.pc = IF taken THEN target ELSE last.addr + 2
            /\ last.wr = <<>>
            /\ \A f \in Registers : cpu[f] = last.before[f]

\* BVS with overflow set and displacement 0x80: taken, 128 bytes backwards
C19_Witness ==
    /\ last.op = "step"
    /\ last.value = \h70
    /\ get_flag(last.before, FLAG_OVERFLOW)
    /\ Read(memory, last.addr + 1) = \h80
    /\ cpu.pc = last.addr + 2 - 128
    /\ cpu.pc < last.addr

----------------------------------------------------------------------------
(* C20 *)

\* C20: XCE (0xFB) exchanges the carry flag and the E latch: afterwards carry
\* is what E was and E is what carry was, so XCE met with carry clear in
\* emulation mode leaves native mode with carry set.
C20_XceExchangesCarryAndE ==
    (last.op = "step" /\ last.value = \hFB) =>
        /\ get_flag(cpu, FLAG_CARRY) = last.before.e_flag
        /\ cpu.e_flag = get_flag(last.before, FLAG_CARRY)

----------------------------------------------------------------------------
(* C21 *)

\* C21: REP (0xC2) and SEP (0xE2) consume their one-byte immediate operand,
\* so PC advances by exactly 2; REP clears in P exactly the operand's bits and
\* SEP sets exactly those bits; when E = 0 the M and X flags then equal bits
\* 0x20 and 0x10 of the new P.
C21_RepSepMaskP ==
    (last.op = "step" /\ last.value \in { \hC2, \hE2 }) =>
        LET operand == Read(memory, last.addr + 1)
            masked == IF last.value = \hC2
                      THEN BitAnd(last.before.p, \hFF - operand)
                      ELSE BitOr(last.before.p, operand)
        IN  /\ cpu.pc = last.addr + 2
            /\ cpu.p = masked
            /\ ~cpu.e_flag =>
                   /\ cpu.m_flag = (BitAnd(cpu.p, \h20) # 0)
                   /\ cpu.x_flag = (BitAnd(cpu.p, \h10) # 0)

----------------------------------------------------------------------------
(* The PPU ticked by the host from reset, with no register written *)

InitPpu ==
    /\ cart = ProgramRom(<<>>, FALSE)
    /\ phase = "ready"
    /\ memory = NewMemory(cart)
    /\ cpu = CpuNew
    /\ last = NoOp
    /\ nwrites = 0
    /\ ppu = PpuNew
    /\ watch = NoWatch

\* the tick counts at which the host may note the scanline and dot: the
\* reset state, the ends of the first dot and the first scanline, either side
\* of the tick that enters scanline 224, and the tick before the wrap
MarkTicks == { 0, 1, 340, 341 * 224 - 1, 341 * 224, 341 * 262 - 1 }

\* the host notes where the PPU is and starts counting
Mark ==
    /\ ~watch.marked
    /\ watch.ticks \in MarkTicks
    /\ watch' = [watch EXCEPT !.marked = TRUE, !.mark = << ppu.scanline, ppu.cycle >>]
    /\ UNCHANGED <<cart, phase, memory, cpu, last, nwrites, ppu>>

\* what the host counts over one call of Ppu::step that took before to after
Counted(w, before, after, m) ==
    LET edge == w.marked /\ ~before.frame_complete /\ after.frame_complete
        Twin(t) ==
            [w EXCEPT !.ticks = @ + 1,
                      !.since = IF w.marked THEN @ + 1 ELSE @,
                      !.edges = IF edge THEN @ + 1 ELSE @,
                      !.raised = IF edge THEN @ \cup { after.scanline } ELSE @,
                      !.twin = t.ppu,
                      !.twin_ret = t.v]
    IN  Twin(PpuStep(w.twin, m))

\* one call of Ppu::step(&mut memory)
Tick ==
    LET Finish(r) ==
            /\ ppu' = r.ppu
            /\ last' = [ op |-> "tick", addr |-> 0, value |-> r.v, before |-> ppu ]
            /\ watch' = Counted(watch, ppu, r.ppu, memory)
    IN  /\ phase = "ready"
        /\ Finish(PpuStep(ppu, memory))
        /\ UNCHANGED <<cart, phase, memory, cpu, nwrites>>

NextPpu ==
    \/ Mark
    \/ /\ IF watch.marked THEN watch.since < 341 * 262 + ExtraTicks
                          ELSE watch.ticks < 341 * 262 - 1
       /\ Tick

SpecPpu == InitPpu /\ [][NextPpu]_vars

----------------------------------------------------------------------------
(* C22 *)

\* C22: from any scanline and dot reached by ticking from reset, exactly
\* 341 * 262 further ticks bring scanline and dot back to the same values, and
\* over those ticks the frame-complete flag goes from false to true exactly
\* once, on the tick that enters scanline 224.
C22_FramePeriod ==
    (watch.marked /\ watch.since = 341 * 262) =>
        /\ << ppu.scanline, ppu.cycle >> = watch.mark
        /\ watch.edges = 1
        /\ watch.raised = { 224 }

\* the count started on the very tick that entered scanline 224, and a whole
\* frame later the PPU is there again with one edge seen
C22_Witness ==
    /\ watch.marked
    /\ watch.since = 341 * 262
    /\ watch.mark = << 224, 0 >>
    /\ ppu.scanline = 224
    /\ ppu.cycle = 0
    /\ watch.edges = 1
    /\ last.op = "tick"
    /\ ~last.before.frame_complete
    /\ ppu.frame_complete

----------------------------------------------------------------------------
(* The PPU ticked by a host that also writes its registers *)

\* the bus writes by which the host fills video memory before the first tick
\* rows 4 and 6 of tile 0 (which an all-zero tile map selects), row 0 of
\* sprite tile 1 and of sprite tile 0 (which the all-zero OAM entries 1..127
\* select at x = 0, y = 0), OAM entry 0 at x = 16, y = 221 with tile 1, and the colors
\* 1 (background) and 17 (sprite); then the display and NMI registers as a
\* program would write them, through the bus
VideoSetup ==
    << << \h2116, \h10 >>, << \h2117, \h00 >>, << \h2118, \hFF >>,
       << \h2116, \h18 >>, << \h2118, \hFF >>,
       << \h2116, \h20 >>, << \h2117, \h40 >>, << \h2118, \h81 >>,
       << \h2116, \h00 >>, << \h2118, \h01 >>,
       << \h2102, \h00 >>, << \h2103, \h00 >>, << \h2104, \h10 >>,
       << \h2102, \h01 >>, << \h2104, \hDD >>,
       << \h2102, \h02 >>, << \h2104, \h01 >>,
       << \h2121, \h02 >>, << \h2122, \h1F >>,
       << \h2121, \h23 >>, << \h2122, \h7C >>,
       << \h002100, \h0F >>, << \h804200, \h80 >> >>

InitRegs ==
    /\ cart = ProgramRom(<<>>, FALSE)
    /\ phase = "ready"
    /\ memory = NewMemory(cart)
    /\ cpu = CpuNew
    /\ last = NoOp
    /\ nwrites = 0
    /\ ppu = PpuNew
    /\ watch = NoWatch

\* the next Memory::write of the setup
VideoWrite ==
    /\ phase = "ready"
    /\ nwrites < Len(VideoSetup)
    /\ memory' = Write(memory, VideoSetup[nwrites + 1][1], VideoSetup[nwrites + 1][2])
    /\ last' = [ op |-> "write", addr |-> VideoSetup[nwrites + 1][1],
                 value |-> VideoSetup[nwrites + 1][2], before |-> 0 ]
    /\ nwrites' = nwrites + 1
    /\ UNCHANGED <<cart, phase, cpu, ppu, watch>>

\* the register writes the host may make, each as the scanline named begins:
\* layers on, forced-blank off, NMI on, forced-blank on and off again, and
\* NMI off during V-blank
WriteSchedule ==
    { << 218, \h212C, \h11 >>, << 219, \h2100, \h0F >>, << 220, \h4200, \h80 >>,
      << 221, \h2100, \h80 >>, << 222, \h2100, \h0F >>, << 230, \h4200, \h00 >> }

\* one call of Ppu::write_register(addr, value); the twin is given the same
\* byte, except that forced-blank is never switched on in it
PpuWrite(addr, value) ==
    /\ phase = "ready"
    /\ last.op = "tick"
    /\ ppu.cycle = 0
    /\ << ppu.scanline, addr, value >> \in WriteSchedule
    /\ ppu' = write_register(ppu, addr, value)
    /\ last' = [ op |-> "write_register", addr |-> addr, value |-> value, before |-> ppu ]
    /\ watch' = [watch EXCEPT
                     !.twin = write_register(@, addr,
                                  IF addr = \h2100 THEN BitAnd(value, \h7F) ELSE value),
                     !.nmi_written = @ \/ (addr = \h4200 /\ BitAnd(value, \h80) # 0)]
    /\ UNCHANGED <<cart, phase, memory, cpu, nwrites>>

NextRegs ==
    \/ VideoWrite
    \/ \E w \in WriteSchedule : PpuWrite(w[2], w[3])
    \/ /\ nwrites = Len(VideoSetup)
       /\ watch.ticks < 341 * RegLines
       /\ Tick

SpecRegs == InitRegs /\ [][NextRegs]_vars

----------------------------------------------------------------------------
(* C23 *)

\* C23: Ppu::step returns true on exactly the ticks that move the scanline
\* counter from 223 to 224 while NMI-enable is set, and false on every other
\* tick; while NMI-enable has never been set, step never returns true and
\* NMI-pending stays false; NMI-pending, set on entering scanline 224, is clear
\* once the scanline has wrapped to 0.
C23_NmiEdge ==
    /\ last.op = "tick" =>
           /\ last.value = ( /\ last.before.scanline = 223
                             /\ ppu.scanline = 224
                             /\ last.before.nmi_enabled )
           /\ last.value => ppu.nmi_flag
           /\ (last.before.scanline = 261 /\ ppu.scanline = 0) => ~ppu.nmi_flag
    /\ ~watch.nmi_written =>
           /\ ~ppu.nmi_flag
           /\ last.op = "tick" => ~last.value

\* the wrap to scanline 0 has just cleared an NMI-pending flag that an edge
\* had set
C23_Witness ==
    /\ last.op = "tick"
    /\ last.before.scanline = 261
    /\ ppu.scanline = 0
    /\ last.before.nmi_flag
    /\ ~ppu.nmi_flag
    /\ watch.nmi_written

----------------------------------------------------------------------------
(* C24 *)

\* the counters and flags of the scanline state machine
Timing(p) == << p.scanline, p.cycle, p.vblank, p.hblank, p.frame_complete, p.nmi_flag >>

\* C24: writing 0x80 to register 0x2100 does not itself modify the
\* framebuffer; while forced-blank is on no tick modifies any framebuffer
\* word; and dot, scanline, V-blank, H-blank, frame-complete, NMI-pending and
\* the NMI edges returned are those of a PPU given the same ticks and writes
\* with forced-blank never switched on.
C24_ForcedBlankKeepsFrame ==
    /\ (last.op = "write_register" /\ last.addr = \h2100 /\ last.value = \h80) =>
           ppu.framebuffer = last.before.framebuffer
    /\ (last.op = "tick" /\ last.before.forced_blank) =>
           ppu.framebuffer = last.before.framebuffer
    /\ Timing(ppu) = Timing(watch.twin)
    /\ last.op = "tick" => last.value = watch.twin_ret

\* forced-blank was switched on after a row had been drawn, and the tick into
\* the next visible scanline left the framebuffer alone while the twin drew
\* that row
C24_Witness ==
    /\ last.op = "tick"
    /\ last.before.forced_blank
    /\ last.before.cycle = 340
    /\ ppu.scanline = 222
    /\ ppu.framebuffer # EmptyArr
    /\ ppu.framebuffer = last.before.framebuffer
    /\ watch.twin.framebuffer # ppu.framebuffer

----------------------------------------------------------------------------
(* System: the CPU, the bus and the PPU stepped together, system.rs *)

\* faulty variant: the cycle counter survives the reset
CpuResetKeepingCycles(c) ==
    [c EXCEPT !.a = 0, !.x = 0, !.y = 0, !.pc = \h008000, !.sp = \h01FF,
              !.dp = 0, !.db = 0, !.pb = 0, !.p = \h34,
              !.m_flag = TRUE, !.x_flag = TRUE, !.e_flag = TRUE]

\* Cpu::reset
CpuReset(c) ==
    [c EXCEPT !.a = 0, !.x = 0, !.y = 0, !.pc = \h008000, !.sp = \h01FF,
              !.dp = 0, !.db = 0, !.pb = 0, !.p = \h34,
              !.m_flag = TRUE, !.x_flag = TRUE, !.e_flag = TRUE,
              !.cycles = 0]

\* Cpu::handle_nmi: PB (native mode only), PCH, PCL and P are pushed, I is
\* set, D is cleared and PC is loaded from the NMI vector
handle_nmi(s) ==
    LET WithBank(st) == IF st.cpu.e_flag THEN st ELSE push_byte(st, st.cpu.pb)
        Pushes(st) == push_byte(PushWord(WithBank(st), BitAnd(st.cpu.pc, \hFFFF)), st.cpu.p)
        Vector(st) ==
            [st EXCEPT !.cpu.p = BitOr(@ - BitAnd(@, FLAG_DECIMAL), FLAG_IRQ),
                       !.cpu.pc = IF st.cpu.e_flag
                                  THEN ReadWord(st.mem, \h00FFFA, \h00FFFB)
                                  ELSE ReadWord(st.mem, \h00FFEA, \h00FFEB)]
    IN  Vector(Pushes(s))

\* the loop of System::step: Ppu::step is called until n calls have been
\* made; r holds the PPU, the latch nmi_triggered and the number of calls made
RECURSIVE PpuTicks(_, _, _)
PpuTicks(r, m, n) ==
    LET Latched(t) == [ ppu |-> t.ppu, v |-> r.v \/ t.v, calls |-> r.calls + 1 ]
    IN  IF r.calls >= n THEN r ELSE PpuTicks(Latched(PpuStep(r.ppu, m)), m, n)

\* faulty variant: two PPU ticks for each CPU cycle
PpuCatchUpTwice(p, m, cycles) ==
    PpuTicks([ ppu |-> p, v |-> FALSE, calls |-> 0 ], m, cycles * 2)

\* System::step, the PPU part: nmi_triggered starts false and the PPU is
\* stepped cycles * 4 times
PpuCatchUp(p, m, cycles) ==
    PpuTicks([ ppu |-> p, v |-> FALSE, calls |-> 0 ], m, cycles * 4)

\* faulty variant: the I flag does not mask the NMI
NmiGateUnmasked(t, c) == t.v /\ t.ppu.nmi_enabled

\* System::step, the condition under which the NMI handler is entered; t is
\* what the PPU ticks left and c the CPU after the instruction
NmiGate(t, c) == t.v /\ t.ppu.nmi_enabled /\ ~get_flag(c, FLAG_IRQ)

\* CLI; JMP $8001
LoopUnmasked == << \h58, \h4C, \h01, \h80 >>

\* JMP $8000
LoopMasked == << \h4C, \h00, \h80 >>

\* LDA #$AB; LDX #$CD; LDY #$12; SEC; SED; PHA; CLI; JMP $800A
LoopDecimal == Prologue \o << \h58, \h4C, \h0A, \h80 >>

\* the loops above and the all-zero image, whose BRK vectors back to itself
SystemPrograms ==
    { ProgramRom(LoopUnmasked, FALSE), ProgramRom(LoopMasked, FALSE),
      ProgramRom(LoopDecimal, FALSE), ProgramRom(<<>>, FALSE) }

\* System::new(rom)
InitSystem ==
    /\ cart \in SystemPrograms
    /\ phase = "ready"
    /\ memory = NewMemory(cart)
    /\ cpu = CpuNew
    /\ last = NoOp
    /\ nwrites = 0
    /\ ppu = PpuNew
    /\ watch = NoWatch

\* the host switches the NMI on through System::get_ppu_mut before the first
\* step after construction or reset
EnableNmi ==
    /\ phase = "ready"
    /\ cpu.cycles = 0
    /\ ~ppu.nmi_enabled
    /\ ppu' = write_register(ppu, \h4200, \h80)
    /\ last' = [ op |-> "write_register", addr |-> \h4200, value |-> \h80, before |-> ppu ]
    /\ watch' = [watch EXCEPT !.nmi_written = TRUE]
    /\ UNCHANGED <<cart, phase, memory, cpu, nwrites>>

\* one call of System::step; the host stops calling once the CPU has
\* consumed half as many cycles as a frame has dots
SystemStep ==
    LET Costed(r) == [r.s EXCEPT !.cpu.cycles = @ + r.v]
        Entered(s, t) == IF NmiGate(t, s.cpu) THEN handle_nmi(s) ELSE s
        Finish(r, s, t, e, opcode) ==
            /\ cpu' = e.cpu
            /\ memory' = e.mem
            /\ ppu' = t.ppu
            /\ last' = [ op |-> "system_step", addr |-> cpu.pc, value |-> opcode,
                         before |-> cpu, cycles |-> r.v, after |-> s.cpu,
                         ppu_before |-> ppu, nmi_triggered |-> t.v ]
            /\ watch' = [watch EXCEPT
                             !.ticks = @ + t.calls,
                             !.edges = IF ~ppu.frame_complete /\ t.ppu.frame_complete
                                       THEN @ + 1 ELSE @,
                             !.entries = IF e.cpu # s.cpu THEN @ + 1 ELSE @]
        Gated(r, s, t, opcode) == Finish(r, s, t, Entered(s, t), opcode)
        Ticked(r, s, opcode) == Gated(r, s, PpuCatchUp(ppu, s.mem, r.v), opcode)
        Executed(r, opcode) == Ticked(r, Costed(r), opcode)
        Fetched(opcode) ==
            Executed(execute_instruction(
                         [ cpu |-> [cpu EXCEPT !.pc = @ + 1], mem |-> memory, wr |-> <<>> ],
                         opcode),
                     opcode)
    IN  /\ phase = "ready"
        /\ cpu.cycles < (341 * 262) \div 2
        /\ Fetched(Read(memory, cpu.pc))
        /\ UNCHANGED <<cart, phase, nwrites>>

\* one call of System::reset, which the host makes once, early in the run
SystemReset ==
    /\ phase = "ready"
    /\ ~watch.marked
    /\ last.op = "system_step"
    /\ cpu.cycles <= MaxResetCycles
    /\ cpu' = CpuReset(cpu)
    /\ ppu' = PpuReset(ppu)
    /\ last' = [ op |-> "reset", addr |-> 0, value |-> 0, before |-> cpu ]
    /\ watch' = [NoWatch EXCEPT !.marked = TRUE]
    /\ UNCHANGED <<cart, phase, memory, nwrites>>

NextSystem == EnableNmi \/ SystemStep \/ SystemReset

SpecSystem == InitSystem /\ [][NextSystem]_vars

----------------------------------------------------------------------------
(* C25 *)

\* C25: after any number of System::step calls since construction or reset,
\* the PPU has been ticked 4 times the CPU cycle counter in all, each step
\* ticking it 4 times the cycle cost it returned, so that scanline * 341 + dot
\* is congruent to 4 * cpu.cycles modulo 341 * 262.
C25_TicksFourPerCycle ==
    /\ watch.ticks = 4 * cpu.cycles
    /\ ppu.scanline * 341 + ppu.cycle = (4 * cpu.cycles) % (341 * 262)
    /\ last.op = "system_step" =>
           /\ cpu.cycles = last.before.cycles + last.cycles
           /\ ( (ppu.scanline * 341 + ppu.cycle)
                - (last.ppu_before.scanline * 341 + last.ppu_before.cycle)
                - 4 * last.cycles ) % (341 * 262) = 0

\* a step of 7 cycles, made after a reset, has carried the PPU over the end
\* of a frame
C25_Witness ==
    /\ last.op = "system_step"
    /\ watch.marked
    /\ last.cycles = 7
    /\ last.ppu_before.scanline = 261
    /\ ppu.scanline = 0
    /\ cpu.cycles > (341 * 262) \div 4

----------------------------------------------------------------------------
(* C26 *)

\* C26: a System::step enters the NMI handler exactly when the tick into
\* scanline 224 fell among its PPU ticks with NMI-enable set and, after those
\* ticks, the I flag is clear and NMI-enable is set; the handler is entered
\* once, after the instruction and all its ticks: what it pushed is the state
\* the instruction left, and the next fetch is from the NMI vector; while I
\* is set, as after reset, no step enters it.
C26_NmiEntry ==
    last.op = "system_step" =>
        LET edge == /\ last.ppu_before.scanline <= 223
                    /\ ppu.scanline >= 224
                    /\ last.ppu_before.nmi_enabled
            entered == cpu # last.after
            PulledBank(w) == IF cpu.e_flag
                       THEN w.s.cpu.sp = last.after.sp
                       ELSE /\ pull_byte(w.s).v = last.after.pb
                            /\ pull_byte(w.s).s.cpu.sp = last.after.sp
            Pc(w) == w.v = BitAnd(last.after.pc, \hFFFF) /\ PulledBank(w)
            Pulled(p) == p.v = last.after.p /\ Pc(PullWord(p.s))
        IN  /\ last.nmi_triggered = edge
            /\ entered = (edge /\ ~get_flag(last.after, FLAG_IRQ) /\ ppu.nmi_enabled)
            /\ get_flag(last.before, FLAG_IRQ) /\ get_flag(last.after, FLAG_IRQ) => ~entered
            /\ watch.ticks = 4 * cpu.cycles
            /\ entered =>
                   /\ cpu = [last.after EXCEPT
                                 !.sp = cpu.sp,
                                 !.p = BitOr(@ - BitAnd(@, FLAG_DECIMAL), FLAG_IRQ),
                                 !.pc = IF cpu.e_flag
                                        THEN ReadWord(memory, \h00FFFA, \h00FFFB)
                                        ELSE ReadWord(memory, \h00FFEA, \h00FFEB)]
                   /\ Pulled(pull_byte([ cpu |-> cpu, mem |-> memory, wr |-> <<>> ]))

\* with decimal mode on and registers loaded, the step that carried the PPU
\* into scanline 224 entered the handler and pushed three bytes
C26_Witness ==
    /\ last.op = "system_step"
    /\ last.nmi_triggered
    /\ cpu # last.after
    /\ get_flag(last.after, FLAG_DECIMAL)
    /\ ~get_flag(cpu, FLAG_DECIMAL)
    /\ cpu.sp = last.after.sp - 3
    /\ cpu.pc = ReadWord(memory, \h00FFFA, \h00FFFB)
    /\ watch.entries = 1

----------------------------------------------------------------------------
(* C27 *)

\* C27: after a reset the program counter is the 16-bit little-endian value
\* the cartridge holds at the reset vector 0x00FFFC/0x00FFFD, whatever the
\* cartridge image, and the cycle counter is 0.
C27_ResetVector ==
    last.op = "reset" =>
        /\ cpu.pc = ReadWord(memory, \h00FFFC, \h00FFFD)
        /\ cpu.cycles = 0

----------------------------------------------------------------------------
(* C28 *)

\* C28: from any CPU state, Cpu::reset leaves exactly the state of Cpu::new:
\* A = X = Y = 0, SP = 0x01FF, PC = 0x008000, DP = 0, DB = PB = 0, P = 0x34,
\* M = X = E = true, cycles = 0; resetting that state again changes nothing.
C28_ResetIsNew ==
    last.op = "reset" =>
        /\ cpu = [ a |-> 0, x |-> 0, y |-> 0, sp |-> \h01FF, pc |-> \h008000,
                   dp |-> 0, db |-> 0, pb |-> 0, p |-> \h34,
                   m_flag |-> TRUE, x_flag |-> TRUE, e_flag |-> TRUE, cycles |-> 0 ]
        /\ cpu = CpuNew
        /\ CpuReset(cpu) = cpu

\* the reset came after registers were loaded, a byte was pushed, flags were
\* set and cycles were counted
C28_Witness ==
    /\ last.op = "reset"
    /\ last.before.a = \hAB
    /\ last.before.x = \hCD
    /\ last.before.y = \h12
    /\ last.before.sp = \h01FE
    /\ last.before.pc # \h008000
    /\ last.before.p \notin { \h34 }
    /\ last.before.cycles > 0
    /\ cpu = CpuNew

----------------------------------------------------------------------------
(* C29 *)

\* C29: from reset with NMI disabled, running System::step until the CPU has
\* consumed 341 * 262 / 2 cycles produces exactly one false-to-true
\* transition of the PPU frame-complete flag and no NMI entry.
C29_OneFrameEdge ==
    (last.op = "system_step" /\ ~watch.nmi_written /\ cpu.cycles >= (341 * 262) \div 2) =>
        /\ watch.edges = 1
        /\ watch.entries = 0

\* C29, amended: from reset with NMI disabled, running System::step until the
\* CPU has consumed 341 * 262 / 2 cycles produces exactly two false-to-true
\* transitions of the PPU frame-complete flag and no NMI entry.
C29_TwoFrameEdges ==
    (last.op = "system_step" /\ ~watch.nmi_written /\ cpu.cycles >= (341 * 262) \div 2) =>
        /\ watch.edges = 2
        /\ watch.entries = 0

\* the run from a reset, with I clear and NMI never enabled, is over: the PPU
\* has ticked through two frames
C29_Witness ==
    /\ last.op = "system_step"
    /\ watch.marked
    /\ ~watch.nmi_written
    /\ ~get_flag(cpu, FLAG_IRQ)
    /\ cpu.cycles >= (341 * 262) \div 2
    /\ watch.ticks >= 2 * 341 * 262
    /\ watch.edges = 2
    /\ watch.entries = 0

----------------------------------------------------------------------------
(* C30 *)

\* C30: bus accesses to the PPU's registers act on the PPU: a Memory::write
\* to 0x2100 in a system bank sets the PPU's forced-blank flag and brightness
\* from the byte, one to 0x4200 sets its NMI-enable flag, and a Memory::read
\* of 0x213E or 0x213F returns the PPU's status byte (bit 7 from V-blank or
\* NMI-pending, bit 6 of 0x213E from H-blank), not a constant.
C30_BusReachesPpu ==
    /\ (last.op = "write" /\ Offset(last.addr) = \h2100) =>
           /\ ppu.forced_blank = (BitAnd(last.value, \h80) # 0)
           /\ ppu.brightness = BitAnd(last.value, \h0F)
    /\ (last.op = "write" /\ Offset(last.addr) = \h4200) =>
           ppu.nmi_enabled = (BitAnd(last.value, \h80) # 0)
    /\ \A bank \in { \h00, \h80 } :
           /\ Read(memory, Addr(bank, \h213E)) = read_register(ppu, \h213E)
           /\ Read(memory, Addr(bank, \h213F)) = read_register(ppu, \h213F)

----------------------------------------------------------------------------
(* Calls, software interrupts and branches stepped from Cpu::new *)

\* LDX #s; TXS; JSR $8010; JMP $8006; at $8010: PHA; PLA; RTS
CallProgram(s) ==
    << \hA2, s, \h9A, \h20, \h10, \h80, \h4C, \h06, \h80 >>
        \o [i \in 1..7 |-> \hEA] \o << \h48, \h68, \h60 >>

\* LDA #$20; STA $00; LDA #$10; STA $01; LDA #$60; STA $10; JMP $FFFF: the
\* program writes JSR $0010 to the start of work RAM and RTS to $0010, and
\* runs off the end of bank $00 into the work RAM mirror of bank $01
BankCallProgram ==
    << \hA9, \h20, \h85, \h00, \hA9, \h10, \h85, \h01, \hA9, \h60, \h85, \h10,
       \h4C, \hFF, \hFF >>

\* Prologue; LDX #s; TXS; BRK
BreakProgram(s) == Prologue \o << \hA2, s, \h9A, \h00 >>

\* JMP $FFFE, where the low byte of the BRK vector is itself a BRK
BankBreakProgram == << \h4C, \hFE, \hFF >>

\* a flag setup and a branch to itself
BranchPrograms ==
    { pre \o << opcode, \hFE >> :
          pre \in { <<>>, << \h38 >>, << \hA9, \h00 >>, << \hA9, \h80 >> },
          opcode \in { \h10, \h30, \h50, \h70, \h90, \hB0, \hD0, \hF0 } }

InitFlow ==
    /\ cart \in { ProgramRom(prog, FALSE) :
                      prog \in { CallProgram(s) : s \in { \hFF, \h80, \h01, \h00 } }
                               \cup { BreakProgram(s) : s \in { \hFF, \h01, \h00 } }
                               \cup { BankBreakProgram }
                               \cup BranchPrograms }
               \cup { [ProgramRom(BankCallProgram, FALSE) EXCEPT
                           !.cells = (\h7FFF :> \hEA) @@ @] }
    /\ phase = "ready"
    /\ memory = NewMemory(cart)
    /\ cpu = CpuNew
    /\ last = NoOp
    /\ nwrites = 0
    /\ ppu = PpuNew
    /\ watch = NoWatch

NextFlow == Step(MaxFlowCycles)

SpecFlow == InitFlow /\ [][NextFlow]_vars

----------------------------------------------------------------------------
(* C31 *)

\* the emulation-mode stack pointer one push below sp
PushedFrom(sp) == IF sp % 256 = 0 THEN \h01FF ELSE sp - 1

\* C31: a JSR at address p pushes the high byte and then the low byte of
\* p + 2 and sets PC to its 16-bit target; the RTS that returns from it with
\* the stack balanced sets PC to p + 3 and SP to what it was before the JSR.
\* The call programs have their JSR at $8003 and its RTS at $8012; the
\* program that runs into bank $01 has them at $010000 and $0010.
C31_CallAndReturn ==
    /\ (last.op = "step" /\ last.value = \h20) =>
           /\ cpu.pc = ReadWord(memory, last.addr + 1, last.addr + 2)
           /\ Read(memory, last.before.sp) = ((last.addr + 2) \div 256) % 256
           /\ Read(memory, PushedFrom(last.before.sp)) = (last.addr + 2) % 256
           /\ cpu.sp = PushedFrom(PushedFrom(last.before.sp))
    /\ (last.op = "step" /\ last.value = \h60 /\ last.addr = \h8012
            /\ Read(memory, \h8000) = \hA2) =>
           /\ cpu.pc = \h8003 + 3
           /\ cpu.sp = \h0100 + Read(memory, \h8001)
    /\ (last.op = "step" /\ last.value = \h60 /\ last.addr = \h0010
            /\ Read(memory, \h8001) = \h20) =>
           /\ cpu.pc = \h010000 + 3
           /\ cpu.sp = \h01FF

----------------------------------------------------------------------------
(* C32 *)

\* C32: BRK at address p pushes the high byte of p + 2 (its bits 8..15, also
\* when p + 2 crosses a bank boundary), the low byte of p + 2 and P with bit
\* 0x10 set, in that order, moving SP down by 3 under the stack's wrap rule;
\* it then sets I and loads PC from the little-endian word at
\* 0x00FFFE/0x00FFFF; A, X, Y and the other bits of P are unchanged.
C32_Break ==
    (last.op = "step" /\ last.value = \h00) =>
        /\ Read(memory, last.before.sp) = ((last.addr + 2) \div 256) % 256
        /\ Read(memory, PushedFrom(last.before.sp)) = (last.addr + 2) % 256
        /\ Read(memory, PushedFrom(PushedFrom(last.before.sp)))
               = BitOr(last.before.p, \h10)
        /\ cpu.sp = PushedFrom(PushedFrom(PushedFrom(last.before.sp)))
        /\ cpu.p = BitOr(last.before.p, FLAG_IRQ)
        /\ cpu.pc = ReadWord(memory, \h00FFFE, \h00FFFF)
        /\ cpu.a = last.before.a
        /\ cpu.x = last.before.x
        /\ cpu.y = last.before.y

\* the BRK at $00:FFFE, whose p + 2 is $01:0000, pushed 0x00, 0x00 and P
C32_Witness ==
    /\ last.op = "step"
    /\ last.value = \h00
    /\ last.addr = \hFFFE
    /\ last.before.sp = \h01FF
    /\ Read(memory, \h01FF) = 0
    /\ Read(memory, \h01FE) = 0
    /\ Read(memory, \h01FD) = \h34
    /\ cpu.sp = \h01FC
    /\ cpu.pc = \h8000

----------------------------------------------------------------------------
(* C33 *)

\* the step just made was a conditional branch with displacement -2 whose
\* condition held
TakenToItself ==
    /\ last.op = "step"
    /\ last.value \in BranchOpcodes
    /\ Read(memory, last.addr + 1) = \hFE
    /\ get_flag(last.before, BranchFlag(last.value)) = BranchPolarity(last.value)

\* C33: when a conditional branch with displacement -2 is taken, PC after the
\* step is the branch's own address and no flag has changed, so every later
\* step executes the same branch again: PC stays at that address while the
\* cycle counter grows by the same amount each step.
C33_TightLoop ==
    /\ [](TakenToItself => (cpu.pc = last.addr /\ cpu.p = last.before.p))
    /\ [][TakenToItself =>
              /\ TakenToItself'
              /\ last'.addr = last.addr
              /\ last'.value = last.value
              /\ cpu'.pc = cpu.pc
              /\ cpu'.cycles - cpu.cycles = cpu.cycles - last.before.cycles]_vars

\* BCS to itself, reached through SEC, has been executed at least three times
C33_Witness ==
    /\ TakenToItself
    /\ last.value = \hB0
    /\ last.addr = \h8001
    /\ last.before.pc = cpu.pc
    /\ cpu.pc = \h8001
    /\ cpu.cycles >= 2 + 3 * last.cycles

----------------------------------------------------------------------------
(* C34 *)

\* C34: in emulation mode TXS sets SP to 0x0100 | (X & 0xFF) and TCS sets SP
\* to 0x0100 | (A & 0xFF), whatever X and A hold, and neither changes a flag.
C34_TransferToSp ==
    (last.op = "step" /\ last.before.e_flag) =>
        /\ last.value = \h9A =>
               /\ cpu.sp = BitOr(\h0100, BitAnd(last.before.x, \hFF))
               /\ cpu.p = last.before.p
        /\ last.value = \h1B =>
               /\ cpu.sp = BitOr(\h0100, BitAnd(last.before.a, \hFF))
               /\ cpu.p = last.before.p

----------------------------------------------------------------------------
(* C35 *)

\* TAX TAY TXA TYA TXY TYX TSX TSC
TransferOpcodes == { \hAA, \hA8, \h8A, \h98, \h9B, \hBB, \hBA, \h3B }

\* the source and the destination register of a transfer opcode
TransferEnds(opcode) ==
    CASE opcode = \hAA -> << "a", "x" >>
      [] opcode = \hA8 -> << "a", "y" >>
      [] opcode = \h8A -> << "x", "a" >>
      [] opcode = \h98 -> << "y", "a" >>
      [] opcode = \h9B -> << "x", "y" >>
      [] opcode = \hBB -> << "y", "x" >>
      [] opcode = \hBA -> << "sp", "x" >>
      [] opcode = \h3B -> << "sp", "a" >>

\* register name of CPU state c
RegisterOf(c, name) ==
    CASE name = "a" -> c.a
      [] name = "x" -> c.x
      [] name = "y" -> c.y
      [] name = "sp" -> c.sp

\* C35: when the width flag of the destination register (M for A, X for the
\* index registers) selects 8 bits, each of TAX, TAY, TXA, TYA, TXY, TYX, TSX
\* and TSC copies only the low byte of the source into the low byte of the
\* destination, and leaves the destination's high byte and the source as
\* they were.
C35_NarrowTransfer ==
    (/\ last.op = "step"
     /\ last.value \in TransferOpcodes
     /\ IF TransferEnds(last.value)[2] = "a"
        THEN last.before.m_flag ELSE last.before.x_flag) =>
        /\ RegisterOf(cpu, TransferEnds(last.value)[2])
               = BitOr(BitAnd(RegisterOf(last.before, TransferEnds(last.value)[2]), \hFF00),
                       BitAnd(RegisterOf(last.before, TransferEnds(last.value)[1]), \hFF))
        /\ RegisterOf(cpu, TransferEnds(last.value)[1])
               = RegisterOf(last.before, TransferEnds(last.value)[1])

----------------------------------------------------------------------------
(* C36 *)

\* C36: STA absolute-long (0x8F) consumes three operand bytes, so PC advances
\* by 4, and stores A (its low byte at 8-bit width) at the 24-bit address they
\* form; STA absolute-long-indexed-X (0x9F) does so at that address plus X;
\* neither changes A or a flag.
C36_StoreLong ==
    (last.op = "step" /\ last.value \in { \h8F, \h9F }) =>
        /\ cpu.pc = last.addr + 4
        /\ Read(memory, Read(memory, last.addr + 1)
                        + 256 * Read(memory, last.addr + 2)
                        + 65536 * Read(memory, last.addr + 3)
                        + (IF last.value = \h9F THEN last.before.x ELSE 0))
               = last.before.a % 256
        /\ cpu.a = last.before.a
        /\ cpu.p = last.before.p

----------------------------------------------------------------------------
(* C37 *)

\* C37: after every tick, whatever registers the host has written between
\* the ticks, the dot counter is in 0..=340 and the scanline counter is in
\* 0..=261; scanline 262 is never observable.
C37_CountersInRange ==
    /\ ppu.cycle \in 0..340
    /\ ppu.scanline \in 0..261

\* the tick at dot 340 of scanline 261, after the host has written registers,
\* has wrapped both counters
C37_Witness ==
    /\ last.op = "tick"
    /\ last.before.scanline = 261
    /\ last.before.cycle = 340
    /\ ppu.scanline = 0
    /\ ppu.cycle = 0
    /\ watch.nmi_written
    /\ ~ppu.forced_blank

----------------------------------------------------------------------------
(* C38 *)

\* C38: after every tick the V-blank flag is set exactly when the scanline
\* counter is in 224..=261; it is clear throughout scanlines 0..=223, scanline
\* 0 after the wrap from 261 included.
C38_VblankWindow ==
    last.op = "tick" => (ppu.vblank = (ppu.scanline \in 224..261))

----------------------------------------------------------------------------
(* The PPU with the display on, ticked by a host that asks for the frame *)

\* the host switches the sprites on and forced-blank off before the first
\* tick: Ppu::write_register(0x212C, 0x10), then (0x2100, 0x0F)
DisplayWrite ==
    LET Finish(addr, value) ==
            /\ ppu' = write_register(ppu, addr, value)
            /\ last' = [ op |-> "write_register", addr |-> addr, value |-> value,
                         before |-> ppu ]
            /\ watch' = [watch EXCEPT !.twin = write_register(@, addr, value)]
    IN  /\ phase = "ready"
        /\ nwrites = Len(VideoSetup)
        /\ watch.ticks = 0
        /\ ppu.forced_blank
        /\ IF ~ppu.sprites_enabled THEN Finish(\h212C, \h10) ELSE Finish(\h2100, \h0F)
        /\ UNCHANGED <<cart, phase, memory, cpu, nwrites>>

\* one call of Ppu::frame_ready()
FrameReady ==
    LET Finish(r) ==
            /\ ppu' = r.ppu
            /\ last' = [ op |-> "frame_ready", addr |-> 0, value |-> r.v, before |-> ppu ]
    IN  /\ phase = "ready"
        /\ Finish(frame_ready(ppu))
        /\ UNCHANGED <<cart, phase, memory, cpu, nwrites, watch>>

\* a host that has noted the reset position asks for the frame after every
\* tick from then on, once; any other host asks after a tick or not, and may
\* ask again after an answer of true
NextDisplay ==
    \/ VideoWrite
    \/ DisplayWrite
    \/ /\ ~ppu.forced_blank
       /\ watch.ticks = 0
       /\ Mark
    \/ /\ \/ last.op = "tick"
          \/ last.op = "frame_ready" /\ last.value /\ ~watch.marked
       /\ FrameReady
    \/ /\ ~ppu.forced_blank
       /\ IF watch.marked
          THEN last.op # "tick" /\ watch.ticks < 341 * DisplayLines
          ELSE watch.ticks < 341 * RegLines
       /\ Tick

SpecDisplay == InitRegs /\ [][NextDisplay]_vars

----------------------------------------------------------------------------
(* C39 *)

\* C39: with forced-blank off, the tick that enters a visible scanline
\* 0..=223, scanline 0 included, renders that scanline: the line buffer and
\* the framebuffer are then those render_scanline leaves for it; no other
\* tick writes either, so each row is rewritten once per 341 * 262 ticks; and
\* no framebuffer word outside rows 0..=223 is ever written.
C39_EveryRowRendered ==
    LET Rendered(r) ==
            /\ ppu.framebuffer = r.framebuffer
            /\ ppu.line_buffer = r.line_buffer
    IN  /\ (last.op = "tick" /\ ~last.before.forced_blank) =>
               IF ppu.cycle = 0 /\ ppu.scanline \in 0..223
               THEN Rendered(render_scanline(
                        [last.before EXCEPT !.cycle = 0, !.scanline = ppu.scanline],
                        memory))
               ELSE Rendered(last.before)
        /\ DOMAIN ppu.framebuffer \subseteq 0..(256 * 224 - 1)

----------------------------------------------------------------------------
(* C40 *)

\* C40: Ppu::frame_ready returns the frame-complete flag and clears it,
\* changing nothing else; the flag is set only by the tick that enters
\* scanline 224, so the call returns true at most once per entry and false
\* until the next; and a host that calls it after every tick gets true
\* exactly after the ticks that enter scanline 224, once per 341 * 262 ticks.
C40_FrameReadyConsumes ==
    /\ last.op = "frame_ready" =>
           /\ last.value = last.before.frame_complete
           /\ ppu = [last.before EXCEPT !.frame_complete = FALSE]
    /\ (last.op = "tick" /\ ppu.frame_complete /\ ~last.before.frame_complete) =>
           /\ last.before.scanline = 223
           /\ ppu.scanline = 224
    /\ last.op = "write_register" => ppu.frame_complete = last.before.frame_complete
    /\ watch.ticks = 0 => ~ppu.frame_complete
    /\ (watch.marked /\ last.op = "frame_ready") =>
           (last.value = (watch.since % (341 * 262) = 341 * 224))

\* the polling host is told of the second frame, 341 * 262 ticks after it was
\* told of the first
C40_Witness ==
    /\ watch.marked
    /\ last.op = "frame_ready"
    /\ last.value
    /\ watch.since = 341 * 224 + 341 * 262
    /\ ~ppu.frame_complete
    /\ ppu.scanline = 224

====
